---- MODULE Spec2Model ----
(***************************************************************************)
(* ada.py, a command line RPN calculator: the session loop RPN(), the      *)
(* evaluator initial_processing() / process_item(), the operators of       *)
(* {op1}, {op2}, {commands} and {shortcuts}, and the memory registers.     *)
(*                                                                         *)
(* A number is a record [ty, n, d]: the Python type of the value           *)
(* ("Decimal" or "float") and its value as the reduced fraction n/d.       *)
(* The stack is a sequence whose element 1 is Python's stack[0] (x:).      *)
(* An input line is a sequence of words (the items parse_entry() splits    *)
(* the line into); a word is a number, a symbol or a register reference.   *)
(* Where the characters matter (parse_entry(), user-defined operations)    *)
(* the line is the string the user types and parse_entry() splits it.      *)
(* An operation whose result is not an exact fraction inside the bounds    *)
(* (an irrational root, a quotient Decimal has to round, Infinity) is      *)
(* outside the model: the step that would produce it is not taken.         *)
(***************************************************************************)
EXTENDS Integers, Sequences, FiniteSets, TLC

\* ---- bounds -------------------------------------------------------------
\* words on one input line
MaxTokens == 3
\* words on one input line where a claim needs a long line
LongLine == 5
\* words typed in one session, over all lines (an empty line counts as one)
MaxTotal == 4
\* words typed in one session whose lines are drawn from a list of lines
MaxSession == 8
\* registers a stored map may hold: 1..MaxReg
MaxReg == 3
\* largest numerator the model represents
MaxNum == 600
\* largest denominator the model represents
MaxDen == 16
\* iterations of the group loop past the end of the line that the model follows
MaxOverrun == 2

VARIABLES stack, lastx_list, mem, entered_value, entered_list, ndx, item, pc,
          notice, typed, store, reply, text, user_dict

vars == <<stack, lastx_list, mem, entered_value, entered_list, ndx, item, pc,
          notice, typed, store, reply, text, user_dict>>

\* ---- numbers ------------------------------------------------------------
Abs(n) == IF n < 0 THEN -n ELSE n

RECURSIVE GCD(_, _)
GCD(a, b) == IF b = 0 THEN a ELSE GCD(b, a % b)

\* the value n/d of Python type ty, as a reduced fraction with d > 0
Num(ty, n, d) ==
    LET g == GCD(Abs(n), Abs(d))
        s == IF d < 0 THEN -1 ELSE 1
    IN  [ty |-> ty, n |-> s * (n \div g), d |-> Abs(d) \div g]

Decimal(n, d) == Num("Decimal", n, d)
float(n, d) == Num("float", n, d)

InRange(v) == Abs(v.n) <= MaxNum /\ v.d <= MaxDen

\* a Decimal holds n/d exactly only if d divides a power of ten, a float
\* only if d is a power of two
Exact(v) ==
    /\ InRange(v)
    /\ IF v.ty = "Decimal" THEN 10000 % v.d = 0 ELSE 1024 % v.d = 0

Lt(a, b) == a.n * b.d < b.n * a.d
Le(a, b) == a.n * b.d <= b.n * a.d
IsZero(a) == a.n = 0
IsInt(a) == a.d = 1

\* int(v): truncation toward zero
int(v) == IF v.n >= 0 THEN v.n \div v.d ELSE -((-v.n) \div v.d)

\* the outcome of an arithmetic expression: a value, an exception, or a
\* value outside the model
Val(v) == [exc |-> "", rep |-> Exact(v), v |-> v]
Exc(e) == [exc |-> e, rep |-> TRUE, v |-> Decimal(0, 1)]
NoRep == [exc |-> "", rep |-> FALSE, v |-> Decimal(0, 1)]

\* b^e for e >= 0, not multiplied further once it has left the range
RECURSIVE IntPow(_, _)
IntPow(b, e) ==
    IF e = 0 THEN 1
    ELSE LET p == IntPow(b, e - 1)
         IN  IF Abs(p) > MaxNum THEN p ELSE p * b

\* the integer square root of n >= 0 (its floor)
RECURSIVE IsqrtFrom(_, _)
IsqrtFrom(n, r) == IF (r + 1) * (r + 1) > n THEN r ELSE IsqrtFrom(n, r + 1)
Isqrt(n) == IsqrtFrom(n, 0)
IsSquare(n) == n >= 0 /\ Isqrt(n) * Isqrt(n) = n

\* Python's binary arithmetic on Decimal and float: an operation on one
\* Decimal and one float raises TypeError
PyAdd(a, b) ==
    IF a.ty # b.ty THEN Exc("TypeError")
    ELSE IF ~InRange(a) \/ ~InRange(b) THEN NoRep
    ELSE Val(Num(a.ty, a.n * b.d + b.n * a.d, a.d * b.d))

PySub(a, b) ==
    IF a.ty # b.ty THEN Exc("TypeError")
    ELSE IF ~InRange(a) \/ ~InRange(b) THEN NoRep
    ELSE Val(Num(a.ty, a.n * b.d - b.n * a.d, a.d * b.d))

PyMul(a, b) ==
    IF a.ty # b.ty THEN Exc("TypeError")
    ELSE IF ~InRange(a) \/ ~InRange(b) THEN NoRep
    ELSE Val(Num(a.ty, a.n * b.n, a.d * b.d))

PyDiv(a, b) ==
    IF a.ty # b.ty THEN Exc("TypeError")
    ELSE IF ~InRange(a) \/ ~InRange(b) THEN NoRep
    ELSE IF b.n = 0
         THEN Exc(IF a.ty = "float" THEN "ZeroDivisionError" ELSE "DivisionByZero")
         ELSE Val(Num(a.ty, a.n * b.d, a.d * b.n))

\* a % b: Decimal truncates the quotient, float floors it
PyMod(a, b) ==
    IF a.ty # b.ty THEN Exc("TypeError")
    ELSE IF ~InRange(a) \/ ~InRange(b) THEN NoRep
    ELSE IF b.n = 0
         THEN Exc(IF a.ty = "float" THEN "ZeroDivisionError" ELSE "InvalidOperation")
         ELSE LET quo == Num(a.ty, a.n * b.d, a.d * b.n)
                  q == IF a.ty = "Decimal" THEN int(quo) ELSE quo.n \div quo.d
              IN  Val(Num(a.ty, a.n * b.d - q * b.n * a.d, a.d * b.d))

\* a ** b
PyPow(a, b) ==
    IF a.ty # b.ty THEN Exc("TypeError")
    ELSE IF ~InRange(a) \/ ~InRange(b) THEN NoRep
    ELSE IF a.n = 0 /\ b.n = 0
         THEN IF a.ty = "Decimal" THEN Exc("InvalidOperation") ELSE Val(Num(a.ty, 1, 1))
    ELSE IF a.n = 0 /\ b.n < 0
         THEN IF a.ty = "Decimal" THEN NoRep ELSE Exc("ZeroDivisionError")
    ELSE IF a.n < 0 /\ ~IsInt(b)
         THEN IF a.ty = "Decimal" THEN Exc("InvalidOperation") ELSE NoRep
    ELSE IF Abs(b.n) > 12 THEN NoRep
    ELSE IF IsInt(b)
         THEN IF b.n >= 0
              THEN Val(Num(a.ty, IntPow(a.n, b.n), IntPow(a.d, b.n)))
              ELSE Val(Num(a.ty, IntPow(a.d, -b.n), IntPow(a.n, -b.n)))
    ELSE IF b.d = 2 /\ IsSquare(a.n) /\ IsSquare(a.d)
         THEN IF b.n >= 0
              THEN Val(Num(a.ty, IntPow(Isqrt(a.n), b.n), IntPow(Isqrt(a.d), b.n)))
              ELSE IF a.n = 0 THEN NoRep
                   ELSE Val(Num(a.ty, IntPow(Isqrt(a.d), -b.n), IntPow(Isqrt(a.n), -b.n)))
    ELSE NoRep

\* ---- characters and strings ------------------------------------------------
digits == {"0", "1", "2", "3", "4", "5", "6", "7", "8", "9"}
ascii_lowercase == {"a", "b", "c", "d", "e", "f", "g", "h", "i", "j", "k", "l", "m",
                    "n", "o", "p", "q", "r", "s", "t", "u", "v", "w", "x", "y", "z"}
ascii_uppercase == {"A", "B", "C", "D", "E", "F", "G", "H", "I", "J", "K", "L", "M",
                    "N", "O", "P", "Q", "R", "S", "T", "U", "V", "W", "X", "Y", "Z"}
letters == ascii_lowercase \cup ascii_uppercase \cup {"_", ":"}
lower_letters == ascii_lowercase \cup {"_", ":"}

\* entered_value[i], counted from 1; "" past the end
At(t, i) == IF i >= 1 /\ i <= Len(t) THEN SubSeq(t, i, i) ELSE ""

\* str.lower()
LowerOf(c) ==
    IF c \in ascii_uppercase
    THEN At("abcdefghijklmnopqrstuvwxyz",
            CHOOSE k \in 1..26 : At("ABCDEFGHIJKLMNOPQRSTUVWXYZ", k) = c)
    ELSE c
RECURSIVE lower(_)
lower(t) == IF Len(t) = 0 THEN "" ELSE LowerOf(Head(t)) \o lower(Tail(t))

\* str.upper()
UpperOf(c) ==
    IF c \in ascii_lowercase
    THEN At("ABCDEFGHIJKLMNOPQRSTUVWXYZ",
            CHOOSE k \in 1..26 : At("abcdefghijklmnopqrstuvwxyz", k) = c)
    ELSE c
RECURSIVE upper(_)
upper(t) == IF Len(t) = 0 THEN "" ELSE UpperOf(Head(t)) \o upper(Tail(t))

\* ---- the operator tables (their keys) ----------------------------------
op1 == {"abs", "ceil", "!", "floor", "log", "n", "pi", "rand", "round", "sqrt",
        "cos", "sin", "tan", "acos", "asin", "atan", "deg", "rad",
        "decbin", "bindec", "dechex", "hexdec", "ic", "ci", "cf", "fc", "go",
        "og", "i", "kp", "pk", "km", "mk", "cm", "mc"}

op2 == {"+", "-", "*", "x", "/", "%", "^"}

commands == {"about", "import", "set", "version", "alpha", "hex", "list_alpha",
             "rgb", "help", "index", "basics", "advanced", "com", "math", "con",
             "short", "userhelp", "phrases", "M+", "M-", "MR", "MD", "ML",
             "clear", "drop", "dup", "list", "rolldown", "rollup", "split",
             "stats", "swap", "tape", "trim", "userop", "user"}

constants == {"e", "avogadro", "golden_ratio", "gram", "inches_hg", "light",
              "mmhg", "parsec"}

shortcuts == {"c", "d", "h", "n", "q", "r", "rd", "ru", "s"}

\* ---- the outcome of one operator function ---------------------------------
\* stack: the stack it leaves; notice: the message it shows; exc: the
\* exception it raises; rep: whether the outcome is inside the model
Ok(s) == [stack |-> s, notice |-> "", exc |-> "", rep |-> TRUE]
Notify(s, msg) == [stack |-> s, notice |-> msg, exc |-> "", rep |-> TRUE]
Raise(s, e) == [stack |-> s, notice |-> "", exc |-> e, rep |-> TRUE]
Unmodelled(s) == [stack |-> s, notice |-> "", exc |-> "", rep |-> FALSE]

\* stack.pop(0); stack.pop(0); stack.insert(0, r) where r is the outcome of
\* the arithmetic expression: when it raises, both operands are already gone
Replace2(s, r) ==
    IF r.exc # "" THEN Raise(Tail(Tail(s)), r.exc)
    ELSE [stack |-> <<r.v>> \o Tail(Tail(s)), notice |-> "", exc |-> "", rep |-> r.rep]

\* ---- math operations from {op2} -----------------------------------------
add(s) ==
    IF Len(s) < 2 THEN Raise(s, "IndexError") ELSE Replace2(s, PyAdd(s[1], s[2]))

sub(s) ==
    IF Len(s) < 2 THEN Raise(s, "IndexError") ELSE Replace2(s, PySub(s[2], s[1]))

mul(s) ==
    IF Len(s) < 2 THEN Raise(s, "IndexError") ELSE Replace2(s, PyMul(s[2], s[1]))

truediv(s) ==
    IF Len(s) < 2 THEN Raise(s, "IndexError") ELSE Replace2(s, PyDiv(s[2], s[1]))

mod(s) ==
    IF Len(s) < 2 THEN Raise(s, "IndexError") ELSE Replace2(s, PyMod(s[2], s[1]))

\* x and y are popped before the try: on any exception of y ** x the message
\* is shown and nothing is pushed
power(s) ==
    IF Len(s) < 2 THEN Raise(s, "IndexError")
    ELSE LET r == PyPow(s[2], s[1])
         IN  IF r.exc # ""
             THEN Notify(Tail(Tail(s)), "Cannot find root of a negative number.")
             ELSE Replace2(s, r)

\* math_op2 without the test of x: against zero: the division is attempted
math_op2_unchecked(s, it) ==
    CASE it = "+" -> add(s)
      [] it = "-" -> sub(s)
      [] it \in {"*", "x"} -> mul(s)
      [] it = "/" -> truediv(s)
      [] it = "%" -> mod(s)
      [] it = "^" -> power(s)

math_op2(s, it) ==
    IF it = "/" /\ Len(s) = 0 THEN Raise(s, "IndexError")
    ELSE IF it = "/" /\ IsZero(s[1]) THEN Notify(s, "Cannot divide by zero.")
    ELSE CASE it = "+" -> add(s)
           [] it = "-" -> sub(s)
           [] it \in {"*", "x"} -> mul(s)
           [] it = "/" -> truediv(s)
           [] it = "%" -> mod(s)
           [] it = "^" -> power(s)

\* ---- math operations from {op1} -----------------------------------------
\* k with 10^k = n/d, for the powers of ten the model represents
Log10Exact(v) ==
    CASE v.n = 1 /\ v.d = 1 -> 0
      [] v.n = 10 /\ v.d = 1 -> 1
      [] v.n = 100 /\ v.d = 1 -> 2
      [] v.n = 1 /\ v.d = 10 -> -1
      [] OTHER -> 99

log(s) ==
    IF Len(s) = 0 THEN Raise(s, "IndexError")
    ELSE IF Le(s[1], Decimal(0, 1)) THEN Notify(s, "Cannot return log of numbers <= 0.")
    ELSE IF Log10Exact(s[1]) = 99 THEN Unmodelled(s)
    ELSE Ok(<<Decimal(Log10Exact(s[1]), 1)>> \o Tail(s))

RECURSIVE Fact(_)
Fact(k) == IF k <= 1 THEN 1 ELSE k * Fact(k - 1)

factorial(s) ==
    IF Len(s) = 0 THEN Raise(s, "IndexError")
    ELSE IF Lt(s[1], Decimal(0, 1)) THEN Notify(s, "Factorial not defined for negative numbers.")
    ELSE IF int(s[1]) > 5 THEN Unmodelled(s)
    ELSE Ok(<<Decimal(Fact(int(s[1])), 1)>> \o Tail(s))

negate(s) ==
    IF Len(s) = 0 THEN Raise(s, "IndexError")
    ELSE Ok(<<Decimal(-s[1].n, s[1].d)>> \o Tail(s))

absolute(s) ==
    IF Len(s) = 0 THEN Raise(s, "IndexError")
    ELSE Ok(<<Decimal(Abs(s[1].n), s[1].d)>> \o Tail(s))

\* sqrt that takes x: off the stack before it looks at its sign
sqrt_popping(s) ==
    IF Len(s) = 0 THEN Raise(s, "IndexError")
    ELSE IF ~Lt(s[1], Decimal(0, 1))
         THEN IF InRange(s[1]) /\ IsSquare(s[1].n) /\ IsSquare(s[1].d)
              THEN Ok(<<Decimal(Isqrt(s[1].n), Isqrt(s[1].d))>> \o Tail(s))
              ELSE Unmodelled(s)
         ELSE Notify(Tail(s), "Square root of a negative number is undefined.")

sqrt(s) ==
    IF Len(s) = 0 THEN Raise(s, "IndexError")
    ELSE IF ~Lt(s[1], Decimal(0, 1))
         THEN IF InRange(s[1]) /\ IsSquare(s[1].n) /\ IsSquare(s[1].d)
              THEN Ok(<<Decimal(Isqrt(s[1].n), Isqrt(s[1].d))>> \o Tail(s))
              ELSE Unmodelled(s)
         ELSE Notify(s, "Square root of a negative number is undefined.")

\* try: operation(...) except: operation(...): the functions modelled here
\* raise before they change the stack, so the second call raises again
math_op1(s, it) ==
    CASE it = "log" -> log(s)
      [] it = "!" -> factorial(s)
      [] it = "n" -> negate(s)
      [] it = "abs" -> absolute(s)
      [] it = "sqrt" -> sqrt(s)
      [] OTHER -> Unmodelled(s)

\* ---- stack functions ----------------------------------------------------
Zero == Decimal(0, 1)

clear(s) == Ok(<<Zero, Zero, Zero, Zero>>)

drop(s) == Ok(IF Len(s) = 0 THEN s ELSE Tail(s))

dup(s) == IF Len(s) = 0 THEN Raise(s, "IndexError") ELSE Ok(<<s[1]>> \o s)

swap(s) ==
    IF Len(s) < 2 THEN Raise(s, "IndexError")
    ELSE Ok(<<s[2], s[1]>> \o Tail(Tail(s)))

\* a roll that turns the whole stack
roll_up_whole(s) ==
    IF Len(s) < 4 THEN Raise(s, "IndexError")
    ELSE Ok(<<s[Len(s)]>> \o SubSeq(s, 1, Len(s) - 1))

roll_up(s) ==
    IF Len(s) < 4 THEN Raise(s, "IndexError")
    ELSE Ok(<<s[4], s[1], s[2], s[3]>> \o SubSeq(s, 5, Len(s)))

roll_down(s) ==
    IF Len(s) < 4 THEN Raise(s, "IndexError")
    ELSE Ok(<<s[2], s[3], s[4], s[1]>> \o SubSeq(s, 5, Len(s)))

trim_stack(s) == Ok(SubSeq(s, 1, IF Len(s) < 4 THEN Len(s) ELSE 4))

\* ---- words and tokens ----------------------------------------------------
\* an item of [entered_list]: a Decimal (k = "num", value n/d) or a string
Sym(str) == [k |-> "sym", s |-> str, n |-> 0, d |-> 1]
Lit(n, d) == [k |-> "num", s |-> "", n |-> n, d |-> d]

IsSym(it, str) == it.k = "sym" /\ it.s = str
InTable(it, table) == it.k = "sym" /\ it.s \in table

\* ---- memory registers ---------------------------------------------------
\* {mem}: a function from register numbers to values
NoMem == [r \in {} |-> Zero]
MemPut(m, r, v) == [q \in DOMAIN m \cup {r} |-> IF q = r THEN v ELSE m[q]]

MOk(s, m) ==
    [stack |-> s, mem |-> m, notice |-> "", exc |-> "", rep |-> TRUE, write |-> FALSE]
WithMem(r, m) ==
    [stack |-> r.stack, mem |-> m, notice |-> r.notice, exc |-> r.exc,
     rep |-> r.rep, write |-> FALSE]

\* M+ that leaves its two operands on the stack
mem_add_keeping(s, m) ==
    IF Len(s) < 2 THEN WithMem(Raise(s, "IndexError"), m)
    ELSE IF ~(IsInt(s[2]) /\ s[2].n > 0)
         THEN WithMem(Notify(s, "Register numbers are positive integers, only."), m)
    ELSE LET register == s[2].n
             register_value == s[1]
         IN  IF register \in DOMAIN m
             THEN LET r == PyAdd(register_value, m[register])
                  IN  IF r.exc # ""
                      THEN WithMem(Notify(s, "No operation conducted."), m)
                      ELSE [MOk(s, MemPut(m, register, r.v)) EXCEPT !.rep = r.rep]
             ELSE MOk(s, MemPut(m, register, register_value))

mem_add(s, m) ==
    IF Len(s) < 2 THEN WithMem(Raise(s, "IndexError"), m)
    ELSE IF ~(IsInt(s[2]) /\ s[2].n > 0)
         THEN WithMem(Notify(s, "Register numbers are positive integers, only."), m)
    ELSE LET register == s[2].n
             register_value == s[1]
             rest == Tail(Tail(s))
         IN  IF register \in DOMAIN m
             THEN LET r == PyAdd(register_value, m[register])
                  IN  IF r.exc # ""
                      THEN WithMem(Notify(rest, "No operation conducted."), m)
                      ELSE [MOk(rest, MemPut(m, register, r.v)) EXCEPT !.rep = r.rep]
             ELSE MOk(rest, MemPut(m, register, register_value))

mem_sub(s, m) ==
    IF Len(s) < 2 THEN WithMem(Raise(s, "IndexError"), m)
    ELSE IF ~IsInt(s[2])
         THEN WithMem(Raise(s, "AttributeError"), m)
    ELSE LET register == s[2].n
             register_value == s[1]
             rest == Tail(Tail(s))
         IN  IF register \in DOMAIN m
             THEN LET r == PySub(m[register], register_value)
                  IN  IF r.exc # ""
                      THEN WithMem(Raise(rest, "AttributeError"), m)
                      ELSE [MOk(rest, MemPut(m, register, r.v)) EXCEPT !.rep = r.rep]
             ELSE MOk(rest, MemPut(m, register, register_value))

\* after the message for an x: that is not a positive integer the function
\* goes on and reads [register], which was never bound
\* MR that takes the register out of {mem} as it recalls it
mem_recall_taking(s, m) ==
    IF Len(s) = 0 THEN WithMem(Raise(s, "IndexError"), m)
    ELSE IF ~(IsInt(s[1]) /\ s[1].n > 0)
         THEN WithMem(Raise(s, "UnboundLocalError"), m)
    ELSE LET register == int(s[1])
         IN  IF register \in DOMAIN m
             THEN MOk(<<m[register]>> \o Tail(s), [q \in DOMAIN m \ {register} |-> m[q]])
             ELSE WithMem(Notify(s, "Memory register does not exist."), m)

\* MR that drops the register number from x: when the register is missing
mem_recall_popping(s, m) ==
    IF Len(s) = 0 THEN WithMem(Raise(s, "IndexError"), m)
    ELSE IF ~(IsInt(s[1]) /\ s[1].n > 0)
         THEN WithMem(Raise(s, "UnboundLocalError"), m)
    ELSE LET register == int(s[1])
         IN  IF register \in DOMAIN m
             THEN MOk(<<m[register]>> \o Tail(s), m)
             ELSE WithMem(Notify(Tail(s), "Memory register does not exist."), m)

mem_recall(s, m) ==
    IF Len(s) = 0 THEN WithMem(Raise(s, "IndexError"), m)
    ELSE IF ~(IsInt(s[1]) /\ s[1].n > 0)
         THEN WithMem(Raise(s, "UnboundLocalError"), m)
    ELSE LET register == int(s[1])
         IN  IF register \in DOMAIN m
             THEN MOk(<<m[register]>> \o Tail(s), m)
             ELSE WithMem(Notify(s, "Memory register does not exist."), m)

mem_list(s, m) ==
    IF DOMAIN m # {}
    THEN WithMem(Notify(s, "MEMORY STACK"), m)
    ELSE WithMem(Notify(s, "No memory registers exist at this time. Sorry."), m)

MemDrop(m, D) == [q \in DOMAIN m \ D |-> m[q]]

\* a loop that pops every register of the range and skips the missing ones
Popped_all(m, register1, register2) ==
    {i \in register1..register2 : i \in DOMAIN m}

\* the registers "for i in range(register1, register2+1)" pops before the
\* first KeyError
Popped(m, register1, register2) ==
    {i \in register1..register2 : \A j \in register1..i : j \in DOMAIN m}

\* MD that takes the range from x: to y: as it finds them
mem_del_unswapped(s, m, confirm) ==
    IF Len(s) < 2 THEN WithMem(Raise(s, "IndexError"), m)
    ELSE LET register1 == Abs(int(s[1]))
             register2 == Abs(int(s[2]))
         IN  IF upper(confirm) # "Y" THEN MOk(s, m)
             ELSE IF register2 = 0
             THEN IF register1 \in DOMAIN m
                  THEN MOk(s, MemDrop(m, {register1}))
                  ELSE WithMem(Notify(s, "Memory register does not exist."), m)
             ELSE LET D == Popped(m, register1, register2)
                  IN  IF D = register1..register2 THEN MOk(s, MemDrop(m, D))
                      ELSE IF D = {}
                      THEN WithMem(Notify(s, "No registers were deleted."), m)
                      ELSE WithMem(Notify(s, "One or more memory registers do not exist."),
                                   MemDrop(m, D))

\* MD that deletes whatever the user answers
mem_del_unasked(s, m, confirm) ==
    IF Len(s) < 2 THEN WithMem(Raise(s, "IndexError"), m)
    ELSE LET a == Abs(int(s[1]))
             b == Abs(int(s[2]))
             register1 == IF a > b /\ b # 0 THEN b ELSE a
             register2 == IF a > b /\ b # 0 THEN a ELSE b
         IN  IF register2 = 0
             THEN IF register1 \in DOMAIN m
                  THEN MOk(s, MemDrop(m, {register1}))
                  ELSE WithMem(Notify(s, "Memory register does not exist."), m)
             ELSE LET D == Popped(m, register1, register2)
                  IN  IF D = register1..register2 THEN MOk(s, MemDrop(m, D))
                      ELSE IF D = {}
                      THEN WithMem(Notify(s, "No registers were deleted."), m)
                      ELSE WithMem(Notify(s, "One or more memory registers do not exist."),
                                   MemDrop(m, D))

\* confirm is the user's answer to "Are you sure ... (Y/N)"
mem_del(s, m, confirm) ==
    IF Len(s) < 2 THEN WithMem(Raise(s, "IndexError"), m)
    ELSE LET a == Abs(int(s[1]))
             b == Abs(int(s[2]))
             register1 == IF a > b /\ b # 0 THEN b ELSE a
             register2 == IF a > b /\ b # 0 THEN a ELSE b
         IN  IF upper(confirm) # "Y" THEN MOk(s, m)
             ELSE IF register2 = 0
             THEN IF register1 \in DOMAIN m
                  THEN MOk(s, MemDrop(m, {register1}))
                  ELSE WithMem(Notify(s, "Memory register does not exist."), m)
             ELSE LET D == Popped(m, register1, register2)
                  IN  IF D = register1..register2 THEN MOk(s, MemDrop(m, D))
                      ELSE IF D = {}
                      THEN WithMem(Notify(s, "No registers were deleted."), m)
                      ELSE WithMem(Notify(s, "One or more memory registers do not exist."),
                                   MemDrop(m, D))

\* ---- memory_registers.json ------------------------------------------------
\* the decimal digits of k >= 0
RECURSIVE Digits(_)
Digits(k) == IF k < 10 THEN <<k>> ELSE Append(Digits(k \div 10), k % 10)

\* the digits after the point of r/d, r < d
RECURSIVE FracDigits(_, _, _)
FracDigits(r, d, fuel) ==
    IF r = 0 \/ fuel = 0 THEN <<>>
    ELSE <<(10 * r) \div d>> \o FracDigits((10 * r) % d, d, fuel - 1)

RECURSIVE DigitsValue(_)
DigitsValue(ds) ==
    IF Len(ds) = 0 THEN 0
    ELSE 10 * DigitsValue(SubSeq(ds, 1, Len(ds) - 1)) + ds[Len(ds)]

RECURSIVE Pow10(_)
Pow10(k) == IF k = 0 THEN 1 ELSE 10 * Pow10(k - 1)

\* str(v): sign, digits before the point, digits after the point
\* str() that writes the digits before the decimal point only
PyStr_integral(v) ==
    [neg |-> v.n < 0,
     int |-> Digits(Abs(v.n) \div v.d),
     frac |-> <<>>]

PyStr(v) ==
    [neg |-> v.n < 0,
     int |-> Digits(Abs(v.n) \div v.d),
     frac |-> IF v.ty = "float" /\ v.d = 1 THEN <<0>>
              ELSE FracDigits(Abs(v.n) % v.d, v.d, MaxDen)]

\* Decimal(t) for a text t
DecimalOf(t) ==
    Decimal((IF t.neg THEN -1 ELSE 1)
                * (DigitsValue(t.int) * Pow10(Len(t.frac)) + DigitsValue(t.frac)),
            Pow10(Len(t.frac)))

\* {str(k): str(v) for k, v in memory.items()}, as the set of its pairs
Dump(m) == {<<PyStr(Decimal(r, 1)), PyStr(m[r])>> : r \in DOMAIN m}

\* {Decimal(k): Decimal(v) for k, v in memory.items()}
Load(f) ==
    [r \in {DecimalOf(p[1]).n : p \in f} |->
        DecimalOf((CHOOSE p \in f : DecimalOf(p[1]).n = r)[2])]

\* ---- process_item -------------------------------------------------------
\* saving after M+ only
WritesStore_add_only == {"M+"}

\* the commands after which {mem} is saved to memory_registers.json
WritesStore == {"M+", "M-", "MD", "MR", "ML"}

memory_operation(s, m, name, confirm) ==
    CASE name = "M+" -> mem_add(s, m)
      [] name = "M-" -> mem_sub(s, m)
      [] name = "MR" -> mem_recall(s, m)
      [] name = "ML" -> mem_list(s, m)
      [] name = "MD" -> mem_del(s, m, confirm)

\* the file is written when the memory function has returned
Saved(r, name) ==
    IF r.exc = "" /\ name \in WritesStore THEN [r EXCEPT !.write = TRUE] ELSE r

\* the function a key of {commands} or {shortcuts} names, for the keys that
\* take (stack, item, window)
operation(s, name) ==
    CASE name \in {"clear", "c"} -> clear(s)
      [] name \in {"drop", "d"} -> drop(s)
      [] name = "dup" -> dup(s)
      [] name \in {"swap", "s"} -> swap(s)
      [] name \in {"rollup", "ru"} -> roll_up(s)
      [] name \in {"rolldown", "rd"} -> roll_down(s)
      [] name = "trim" -> trim_stack(s)
      [] name = "n" -> negate(s)
      [] name \in {"help", "h"} -> Notify(s, "HELP")
      [] name = "q" -> Raise(s, "TypeError")
      [] OTHER -> Unmodelled(s)

\* a Decimal the table gives by a literal whose value is beyond the
\* fractions the model computes with: it is kept as the literal
Literal(str) == [ty |-> "Decimal", literal |-> str]

\* the fixed value of a constant
ConstantValue(name) ==
    CASE name = "e" -> Literal("2.7182818284590452353602874714")
      [] name = "avogadro" -> Literal("6.0221409e+23")
      [] name = "golden_ratio" -> Literal("1.61803398874989484820")
      [] name = "gram" -> Literal("0.03527396195")
      [] name = "inches_hg" -> Literal("25.399999705")
      [] name = "light" -> Decimal(299792458, 1)
      [] name = "mmhg" -> Literal("0.53524017145")
      [] name = "parsec" -> Literal("19173510995000")

\* a constant that takes the place of x:
InsertConstant_over_x(s, name) == <<ConstantValue(name)>> \o Tail(s)

\* stack.insert(0, constants[item][0])
InsertConstant(s, name) == <<ConstantValue(name)>> \o s

process_item(s, m, it, confirm) ==
    IF IsSym(it, "(") \/ IsSym(it, ")") THEN MOk(s, m)
    ELSE IF it.k = "num" THEN MOk(<<Decimal(it.n, it.d)>> \o s, m)
    ELSE IF InTable(it, op1) THEN WithMem(math_op1(s, it.s), m)
    ELSE IF InTable(it, op2) THEN WithMem(math_op2(s, it.s), m)
    ELSE IF InTable(it, commands) \/ InTable(it, shortcuts) \/ InTable(it, constants)
         THEN IF it.s \in {"M+", "M-", "MD", "MR", "ML"}
              THEN Saved(memory_operation(s, m, it.s, confirm), it.s)
              ELSE IF it.s \in {"user", "set", "tape", "stats"}
                   THEN WithMem(Unmodelled(s), m)
              ELSE IF it.s \in constants
                   THEN MOk(InsertConstant(s, it.s), m)
              ELSE WithMem(operation(s, it.s), m)
    ELSE WithMem(Notify(s, "Unknown command"), m)

\* ---- print_register -----------------------------------------------------
\* a display that shows the stack as it is
print_register_unpadded(s) == s

\* "Stack must always have at least 4 elements": zeros are appended
RECURSIVE print_register(_)
print_register(s) == IF Len(s) < 4 THEN print_register(Append(s, Zero)) ELSE s

\* ---- parse_entry --------------------------------------------------------
registers == <<"x:", "y:", "z:", "t:">>
RegIndex(str) == CHOOSE i \in 1..4 : registers[i] = str
IsReg(w) == w.k = "sym" /\ w.s \in {"x:", "y:", "z:", "t:"}

\* the items of the line: a register reference is replaced by
\* Decimal(str(stack[i])), every other word is kept
ParsedItems(s, words) ==
    [i \in 1..Len(words) |->
        IF IsReg(words[i])
        THEN LET v == s[RegIndex(words[i].s)] IN Lit(v.n, v.d)
        ELSE words[i]]

\* the stack after the scan: stack[ndx] = 0.0, a Python float, for every
\* register the line names
ParsedStack(s, words) ==
    [i \in 1..Len(s) |->
        IF i <= 4 /\ \E j \in 1..Len(words) : IsSym(words[j], registers[i])
        THEN float(0, 1)
        ELSE s[i]]

\* ---- parse_entry on the characters of the line ------------------------------
\* string.digits, ascii_lowercase, ascii_uppercase
\* the character starts or continues a number
IsNumChar(c) == c \in digits \/ c = "-" \/ c = "."
\* the character starts a word
IsWordStart(c) == c \in letters \/ c \in op1 \/ c \in op2

\* a line whose commas stay
NoCommas_kept(t) == t

\* entered_value.replace(',', '')
RECURSIVE NoCommas(_)
NoCommas(t) ==
    IF Len(t) = 0 THEN ""
    ELSE (IF Head(t) = "," THEN "" ELSE Head(t)) \o NoCommas(Tail(t))

\* str.strip(), for blanks
RECURSIVE lstrip(_)
lstrip(t) == IF Len(t) > 0 /\ Head(t) = " " THEN lstrip(Tail(t)) ELSE t
RECURSIVE rstrip(_)
rstrip(t) ==
    IF Len(t) > 0 /\ At(t, Len(t)) = " " THEN rstrip(SubSeq(t, 1, Len(t) - 1)) ELSE t

\* r in entered_value
Contains(t, r) == \E i \in 1..(Len(t) - Len(r) + 1) : SubSeq(t, i, i + Len(r) - 1) = r

\* the inner loop of a number: the index of the last character of the run of
\* digits, "." and "-" that starts at i
RECURSIVE NumberRunEnd(_, _)
NumberRunEnd(t, i) ==
    IF i + 1 <= Len(t) /\ IsNumChar(At(t, i + 1)) THEN NumberRunEnd(t, i + 1) ELSE i

\* a word loop that takes every following character that can start a word
RECURSIVE WordRunEnd_greedy(_, _)
WordRunEnd_greedy(t, i) ==
    IF i + 1 <= Len(t) /\ IsWordStart(At(t, i + 1)) THEN WordRunEnd_greedy(t, i + 1)
    ELSE i

\* the inner loop of a word: the index of its last character. The word goes
\* on while the next character is a lowercase letter, "_" or ":"; "M" takes
\* one of "+", "-", "D", "L", "R" with it
RECURSIVE WordRunEnd(_, _)
WordRunEnd(t, i) ==
    IF i + 1 <= Len(t) /\ At(t, i + 1) \in lower_letters THEN WordRunEnd(t, i + 1)
    ELSE IF At(t, i) = "M" /\ At(t, i + 1) \in {"+", "-", "D", "L", "R"} THEN i + 1
    ELSE i

\* the index of the last character of the item that starts at i
ItemEnd(t, i) ==
    LET c == At(t, i)
    IN  IF c \in {"(", ")"} THEN i
        ELSE IF IsNumChar(c) THEN NumberRunEnd(t, i)
        ELSE IF IsWordStart(c) THEN WordRunEnd(t, i)
        ELSE i

\* the string s the iteration at i appends to [data]: "" for a character
\* that starts nothing
ItemText(t, i) ==
    LET c == At(t, i)
    IN  IF c \in {"(", ")"} \/ IsNumChar(c) \/ IsWordStart(c)
        THEN SubSeq(t, i, ItemEnd(t, i))
        ELSE ""

\* [data] from the character at i on
RECURSIVE Scan(_, _)
Scan(t, i) ==
    IF i > Len(t) THEN <<>>
    ELSE <<ItemText(t, i)>> \o Scan(t, ItemEnd(t, i) + 1)

\* the digits of a string of digit characters
DigitOf(c) == CHOOSE k \in 0..9 : At("0123456789", k + 1) = c
DigitsOf(str) == [i \in 1..Len(str) |-> DigitOf(At(str, i))]

\* the position of the first "." of str, Len(str) + 1 when there is none
RECURSIVE DotAt(_, _)
DotAt(str, i) == IF i > Len(str) \/ At(str, i) = "." THEN i ELSE DotAt(str, i + 1)

\* the string without its sign
Unsigned(str) == IF At(str, 1) = "-" THEN Tail(str) ELSE str

\* Decimal(str) does not raise: an optional "-", digits with at most one
\* ".", at least one digit. (The words "nan", "inf" and "infinity" are
\* numbers for Decimal too; no vocabulary of the model spells them.)
IsDecimalText(str) ==
    LET u == Unsigned(str)
        dot == DotAt(u, 1)
    IN  /\ Len(u) > 0
        /\ \A i \in 1..Len(u) : At(u, i) \in digits \/ i = dot
        /\ \E i \in 1..Len(u) : At(u, i) \in digits

\* Decimal(str) for such a string
DecimalOfText(str) ==
    LET u == Unsigned(str)
        dot == DotAt(u, 1)
    IN  DecimalOf([neg |-> At(str, 1) = "-",
                   int |-> DigitsOf(SubSeq(u, 1, dot - 1)),
                   frac |-> DigitsOf(SubSeq(u, dot + 1, Len(u)))])

\* the item an element of [data] becomes: a register reference is
\* Decimal(str(stack[i])), a number string its Decimal, any other string
\* itself; ",", ";", ":" and "" become nothing
\* a cleanup that drops what starts like a number and is not one
Kept_parsed(s) ==
    /\ s \notin {"", ",", ";", ":"}
    /\ IsNumChar(At(s, 1)) => IsDecimalText(s)
Kept(s) == s \notin {"", ",", ";", ":"}
ItemOf(stk, s) ==
    IF s \in {"x:", "y:", "z:", "t:"}
    THEN LET v == DecimalOf(PyStr(stk[RegIndex(s)])) IN Lit(v.n, v.d)
    ELSE IF IsDecimalText(s)
    THEN LET v == DecimalOfText(s) IN Lit(v.n, v.d)
    ELSE Sym(s)

\* a scan that leaves the registers it has read as they are
parse_entry_keeping(stk, entered) ==
    LET t == NoCommas(entered)
        data == SelectSeq(Scan(t, 1), Kept)
    IN  [stack |-> stk,
         entered_list |-> [j \in 1..Len(data) |-> ItemOf(stk, data[j])]]

\* parse_entry(stack, entered_value): the stack and [entered_list]
parse_entry(stk, entered) ==
    LET t == NoCommas(entered)
        data == SelectSeq(Scan(t, 1), Kept)
    IN  [stack |-> [i \in 1..Len(stk) |->
                       IF i <= 4 /\ Contains(t, registers[i]) THEN float(0, 1)
                       ELSE stk[i]],
         entered_list |-> [j \in 1..Len(data) |-> ItemOf(stk, data[j])]]

\* ---- {user_dict} -------------------------------------------------------------
\* the user-defined operations: a function from names to values
NoMacros == [name \in {} |-> ""]

\* ---- initial_processing -------------------------------------------------
\* the evaluator's state as one record
State == [stack |-> stack, lastx_list |-> lastx_list, mem |-> mem,
          entered_list |-> entered_list, ndx |-> ndx, item |-> item,
          pc |-> pc, notice |-> notice, store |-> store, confirm |-> reply]

\* the state when the user answers a to the question the item asks; only MD
\* asks one, "" stands for no question
Answered(a) == [State EXCEPT !.confirm = a]
Asked(it, answers) == IF it.k = "sym" /\ it.s = "MD" THEN answers ELSE {""}
Replies(it) == Asked(it, {"Y", "N"})

\* an uncaught exception ends the program
Crash(S, e) == [S EXCEPT !.pc = "crashed", !.notice = e]

\* the outcome r of an operator function, applied to the state; the cursor
\* moves to n
Apply(S, r, n) ==
    IF r.exc # ""
    THEN [S EXCEPT !.stack = r.stack, !.pc = "crashed", !.notice = r.exc]
    ELSE [S EXCEPT !.stack = r.stack, !.notice = r.notice, !.ndx = n]

ApplyM(S, r, n) ==
    [Apply(S, r, n) EXCEPT !.mem = r.mem,
                           !.store = IF r.write THEN Dump(r.mem) ELSE S.store]

\* one iteration of the while loop over [entered_list]; rep tells whether the
\* outcome is inside the model
TopStep(S) ==
    LET it == S.entered_list[S.ndx + 1]
        len == Len(S.entered_list)
        last == S.lastx_list[Len(S.lastx_list)]
        S1 == [S EXCEPT !.item = it, !.lastx_list = <<last>>]
    IN  IF Len(S.stack) = 0 THEN [st |-> Crash(S1, "IndexError"), rep |-> TRUE]
        ELSE
        LET S2 == [S1 EXCEPT !.lastx_list = <<last, S.stack[1]>>]
        IN  IF InTable(it, shortcuts)
            THEN IF it.s = "h" /\ len = 1
                 THEN [st |-> [S2 EXCEPT !.ndx = 42000 + 1, !.notice = "HELP"], rep |-> TRUE]
                 ELSE IF it.s = "q"
                 THEN [st |-> [S2 EXCEPT !.ndx = 420000 + 1, !.notice = ""], rep |-> TRUE]
                 ELSE IF it.s = "h" /\ len > 1 /\ S.ndx + 1 >= len
                 THEN [st |-> Crash(S2, "IndexError"), rep |-> TRUE]
                 ELSE IF it.s = "h" /\ len > 1 /\ ~IsSym(S.entered_list[S.ndx + 2], "q")
                 THEN [st |-> [S2 EXCEPT !.ndx = S.ndx + 2, !.notice = "HELP"], rep |-> TRUE]
                 ELSE LET r == operation(S.stack, it.s)
                      IN  [st |-> Apply(S2, r, S.ndx + 1), rep |-> r.rep]
            ELSE IF ~IsSym(it, "(")
            THEN IF IsSym(it, "set")
                 THEN [st |-> S2, rep |-> FALSE]
                 ELSE LET r == process_item(S.stack, S.mem, it, S.confirm)
                      IN  [st |-> ApplyM(S2, r, S.ndx + 1), rep |-> r.rep]
            ELSE [st |-> [S2 EXCEPT !.pc = "group", !.notice = ""], rep |-> TRUE]

\* one iteration of the inner loop "while item != ')'": the item is
\* processed, the cursor moves on and the next item is fetched if there is
\* one; on ')' the loop ends and the cursor steps over it
GroupStep(S) ==
    LET r == process_item(S.stack, S.mem, S.item, S.confirm)
        len == Len(S.entered_list)
        n == S.ndx + 1
        next == IF n < len THEN S.entered_list[n + 1] ELSE S.item
        S1 == ApplyM(S, r, n)
    IN  IF r.exc # "" THEN [st |-> S1, rep |-> TRUE]
        ELSE IF IsSym(next, ")")
        THEN [st |-> [S1 EXCEPT !.item = next, !.ndx = n + 1, !.pc = "eval"], rep |-> r.rep]
        ELSE [st |-> [S1 EXCEPT !.item = next], rep |-> r.rep /\ S.ndx < len + MaxOverrun]

\* ---- the session: RPN() ----------------------------------------------------
NoItem == Sym("")

Count(words, str) == Cardinality({i \in DOMAIN words : IsSym(words[i], str)})
\* a parenthesis test that only looks for a ")" without its "("
Balanced_lenient(words) == Count(words, "(") - Count(words, ")") >= 0
Balanced(words) == Count(words, "(") - Count(words, ")") = 0

\* the lines of at most n words over a vocabulary, and the empty line
LinesOver(V, n) == UNION {[1..k -> V] : k \in 0..n}

Init ==
    /\ stack = <<Zero>>
    /\ lastx_list = <<Zero>>
    /\ mem = NoMem
    /\ entered_value = <<>>
    /\ entered_list = <<>>
    /\ ndx = 0
    /\ item = NoItem
    /\ pc = "start"
    /\ notice = ""
    /\ typed = 0
    /\ store = {}
    /\ reply = ""
    /\ text = ""
    /\ user_dict = NoMacros

Assign(S) ==
    /\ stack' = S.stack
    /\ lastx_list' = S.lastx_list
    /\ mem' = S.mem
    /\ entered_list' = S.entered_list
    /\ ndx' = S.ndx
    /\ item' = S.item
    /\ pc' = S.pc
    /\ notice' = S.notice
    /\ store' = S.store
    /\ reply' = S.confirm

\* RPN() is entered: the register is printed and the user is prompted
Start ==
    /\ pc = "start"
    /\ stack' = print_register(stack)
    /\ pc' = "prompt"
    /\ UNCHANGED <<lastx_list, mem, entered_value, entered_list, ndx, item, notice, typed, store, reply, text, user_dict>>

\* get_user_input() returns the line the user typed; the session ends after
\* budget words
Input(line, budget) ==
    /\ pc = "prompt"
    /\ typed + (IF Len(line) = 0 THEN 1 ELSE Len(line)) <= budget
    /\ entered_value' = line
    /\ typed' = typed + (IF Len(line) = 0 THEN 1 ELSE Len(line))
    /\ pc' = "entered"
    /\ notice' = ""
    /\ UNCHANGED <<stack, lastx_list, mem, entered_list, ndx, item, store, reply, text, user_dict>>

\* the line is "q": RPN() returns
Quit ==
    /\ pc = "entered"
    /\ entered_value = <<Sym("q")>>
    /\ pc' = "quit"
    /\ UNCHANGED <<stack, lastx_list, mem, entered_value, entered_list, ndx, item, notice, typed, store, reply, text, user_dict>>

\* the parentheses of the line are not paired: the loop continues with the
\* next prompt
Unbalanced ==
    /\ pc = "entered"
    /\ entered_value # <<Sym("q")>>
    /\ ~Balanced(entered_value)
    /\ notice' = "Parentheses are not balanced."
    /\ stack' = print_register(stack)
    /\ entered_value' = <<>>
    /\ pc' = "prompt"
    /\ UNCHANGED <<lastx_list, mem, entered_list, ndx, item, typed, store, reply, text, user_dict>>

\* <ENTER> alone: x: is duplicated
EmptyEnter ==
    /\ pc = "entered"
    /\ Balanced(entered_value)
    /\ Len(entered_value) = 0
    /\ stack' = print_register(<<stack[1]>> \o stack)
    /\ pc' = "prompt"
    /\ UNCHANGED <<lastx_list, mem, entered_value, entered_list, ndx, item, notice, typed, store, reply, text, user_dict>>

\* the line is parsed and handed to initial_processing()
EnterLine ==
    /\ pc = "entered"
    /\ entered_value # <<Sym("q")>>
    /\ Balanced(entered_value)
    /\ Len(entered_value) > 0
    /\ stack' = ParsedStack(stack, entered_value)
    /\ entered_list' = ParsedItems(stack, entered_value)
    /\ ndx' = 0
    /\ pc' = "eval"
    /\ UNCHANGED <<lastx_list, mem, entered_value, item, notice, typed, store, reply, text, user_dict>>

\* one item of the line is evaluated at top level; the user answers the
\* question of MD with one of answers
EvalItemOn(answers) ==
    /\ pc = "eval"
    /\ ndx < Len(entered_list)
    /\ \E answ \in Asked(entered_list[ndx + 1], answers) :
          /\ TopStep(Answered(answ)).rep
          /\ Assign(TopStep(Answered(answ)).st)
    /\ UNCHANGED <<entered_value, typed, text, user_dict>>

\* one item of the line is evaluated at top level
EvalItem == EvalItemOn({"Y", "N"})

\* one item is evaluated inside a group
EvalGroupItem ==
    /\ pc = "group"
    /\ \E answ \in Replies(item) :
          /\ GroupStep(Answered(answ)).rep
          /\ Assign(GroupStep(Answered(answ)).st)
    /\ UNCHANGED <<entered_value, typed, text, user_dict>>

\* initial_processing() returns; the loop continues: the register is printed
\* and the user is prompted again
Return ==
    /\ pc = "eval"
    /\ ndx >= Len(entered_list)
    /\ stack' = print_register(stack)
    /\ entered_value' = <<>>
    /\ entered_list' = <<>>
    /\ ndx' = 0
    /\ item' = NoItem
    /\ pc' = "prompt"
    /\ notice' = ""
    /\ UNCHANGED <<lastx_list, mem, typed, store, reply, text, user_dict>>

\* ---- the session, on the characters the user types --------------------------
\* the phrases that stand for a command
phrases ==
    [p \in {"decimal to binary", "decimal to hex", "inches to centimeters",
            "centimeters to inches", "centigrade to fahrenheit",
            "fahrenheit to centigrade", "grams to ounces", "ounces to grams",
            "decimal to fraction", "kilograms to pounds", "pounds to kilograms",
            "kilometers to miles", "miles to kilometers", "cm water to mmhg",
            "mmhg to cm water", "userops", "user operations", "useroperations"} |->
        CASE p = "decimal to binary" -> "decbin"
          [] p = "decimal to hex" -> "dechex"
          [] p = "inches to centimeters" -> "ic"
          [] p = "centimeters to inches" -> "ci"
          [] p = "centigrade to fahrenheit" -> "cf"
          [] p = "fahrenheit to centigrade" -> "fc"
          [] p = "grams to ounces" -> "go"
          [] p = "ounces to grams" -> "og"
          [] p = "decimal to fraction" -> "i"
          [] p = "kilograms to pounds" -> "kp"
          [] p = "pounds to kilograms" -> "pk"
          [] p = "kilometers to miles" -> "km"
          [] p = "miles to kilometers" -> "mk"
          [] p = "cm water to mmhg" -> "cm"
          [] p = "mmhg to cm water" -> "mc"
          [] OTHER -> "userop"]

\* lst.count(c) for the characters of the line
RECURSIVE CountChar(_, _)
CountChar(t, c) ==
    IF Len(t) = 0 THEN 0
    ELSE (IF Head(t) = c THEN 1 ELSE 0) + CountChar(Tail(t), c)

\* entered_value[0:len(p)] == p
StartsWith(t, p) == Len(p) <= Len(t) /\ SubSeq(t, 1, Len(p)) = p

\* an expansion that also replaces a name that is the first word of the line
Expanded_first_word(t, ud) ==
    IF t \in DOMAIN ud THEN ud[t]
    ELSE IF \E name \in DOMAIN ud : StartsWith(t, name \o " ")
    THEN LET name == CHOOSE name \in DOMAIN ud : StartsWith(t, name \o " ")
         IN  ud[name] \o SubSeq(t, Len(name) + 1, Len(t))
    ELSE t

\* a replacement that is itself the name of an operation is replaced again
Expanded_twice(t, ud) ==
    LET t1 == IF lower(t) \in DOMAIN phrases THEN phrases[lower(t)] ELSE t
        t2 == IF t1 \in DOMAIN ud THEN ud[t1] ELSE t1
    IN  IF t2 \in DOMAIN ud THEN ud[t2] ELSE t2

\* the line after a phrase is translated and the name of a user-defined
\* operation is replaced by the operation: both only when they are the
\* whole line
Expanded(t, ud) ==
    LET t1 == IF lower(t) \in DOMAIN phrases THEN phrases[lower(t)] ELSE t
    IN  IF t1 \in DOMAIN ud THEN ud[t1] ELSE t1

\* get_user_input() returns the characters the user typed, stripped; the
\* session ends after budget lines
InputText(t, budget) ==
    /\ pc = "prompt"
    /\ typed + 1 <= budget
    /\ text' = rstrip(lstrip(t))
    /\ typed' = typed + 1
    /\ pc' = "text"
    /\ notice' = ""
    /\ UNCHANGED <<stack, lastx_list, mem, entered_value, entered_list, ndx, item, store, reply, user_dict>>

\* a session that a q anywhere on the line ends
QuitText_any ==
    /\ pc = "text"
    /\ Contains(lower(text), "q")
    /\ pc' = "quit"
    /\ UNCHANGED <<stack, lastx_list, mem, entered_value, entered_list, ndx, item, notice, typed, store, reply, text, user_dict>>

\* the line is "q": RPN() returns
QuitText ==
    /\ pc = "text"
    /\ lower(text) = "q"
    /\ pc' = "quit"
    /\ UNCHANGED <<stack, lastx_list, mem, entered_value, entered_list, ndx, item, notice, typed, store, reply, text, user_dict>>

\* the parentheses of the line are not paired
UnbalancedText ==
    /\ pc = "text"
    /\ lower(text) # "q"
    /\ CountChar(text, "(") # CountChar(text, ")")
    /\ notice' = "Parentheses are not balanced."
    /\ stack' = print_register(stack)
    /\ pc' = "prompt"
    /\ UNCHANGED <<lastx_list, mem, entered_value, entered_list, ndx, item, typed, store, reply, text, user_dict>>

\* <ENTER> alone that only prints the register again
EmptyText_idle ==
    /\ pc = "text"
    /\ Len(text) = 0
    /\ stack' = print_register(stack)
    /\ pc' = "prompt"
    /\ UNCHANGED <<lastx_list, mem, entered_value, entered_list, ndx, item, notice, typed, store, reply, text, user_dict>>

\* <ENTER> alone: x: is duplicated
EmptyText ==
    /\ pc = "text"
    /\ Len(text) = 0
    /\ stack' = print_register(<<stack[1]>> \o stack)
    /\ pc' = "prompt"
    /\ UNCHANGED <<lastx_list, mem, entered_value, entered_list, ndx, item, notice, typed, store, reply, text, user_dict>>

\* the line is expanded, parsed and handed to initial_processing(); lines
\* that start with "#", "0x" or "0b" are conversions, which are not modelled
EnterText ==
    /\ pc = "text"
    /\ lower(text) # "q"
    /\ CountChar(text, "(") = CountChar(text, ")")
    /\ Len(text) > 0
    /\ LET entered == Expanded(text, user_dict)
       IN  /\ At(entered, 1) # "#"
           /\ ~StartsWith(entered, "0x")
           /\ ~StartsWith(entered, "0b")
           /\ stack' = parse_entry(stack, entered).stack
           /\ entered_list' = parse_entry(stack, entered).entered_list
    /\ ndx' = 0
    /\ pc' = "eval"
    /\ UNCHANGED <<lastx_list, mem, entered_value, item, notice, typed, store, reply, text, user_dict>>

\* ---- user_defined: the dialog of the command "user" -----------------------------
\* the keys of {alpha}
alpha == {"100", "95", "90", "85", "80", "75", "70", "65", "60", "55", "50", "45",
          "40", "35", "30", "25", "20", "15", "10", "5", "0"}

\* the names the dialog refuses for a new operation
SystemNames ==
    op1 \cup op2 \cup constants \cup commands \cup shortcuts \cup alpha \cup DOMAIN phrases

\* {user_dict} with name defined as value, and without name
Defined(ud, name, value) ==
    [n \in DOMAIN ud \cup {name} |-> IF n = name THEN value ELSE ud[n]]
Deleted(ud, name) == [n \in DOMAIN ud \ {name} |-> ud[n]]

\* a dialog that accepts every name without an uppercase letter
user_defined_unchecked(ud, name, value, ok_delete) ==
    IF \E i \in 1..Len(name) : At(name, i) \in ascii_uppercase
    THEN [user_dict |-> ud, asked |-> FALSE]
    ELSE IF Len(value) = 0
    THEN [user_dict |-> IF name \in DOMAIN ud /\ upper(ok_delete) = "Y"
                        THEN Deleted(ud, name) ELSE ud,
          asked |-> TRUE]
    ELSE [user_dict |-> Defined(ud, name, value), asked |-> TRUE]

\* one pass of the loop of user_defined() for a name that is not empty:
\* {user_dict} after it, and whether the pass reached the question "Add or
\* edit another constant?". ok_delete is the answer to "Delete? (Y/N)",
\* which is asked for a name that exists and an empty value
user_defined(ud, name, value, ok_delete) ==
    IF \E i \in 1..Len(name) : At(name, i) \in ascii_uppercase
    THEN [user_dict |-> ud, asked |-> FALSE]
    ELSE IF name \notin DOMAIN ud /\ name \in SystemNames
    THEN [user_dict |-> ud, asked |-> FALSE]
    ELSE IF Len(value) = 0
    THEN [user_dict |-> IF name \in DOMAIN ud /\ upper(ok_delete) = "Y"
                        THEN Deleted(ud, name) ELSE ud,
          asked |-> TRUE]
    ELSE [user_dict |-> Defined(ud, name, value), asked |-> TRUE]

\* the item "user" is dispatched at top level: the dialog opens on the
\* operations constants.json holds, which are those of {user_dict}
OpenDialog ==
    /\ pc = "eval"
    /\ ndx < Len(entered_list)
    /\ IsSym(entered_list[ndx + 1], "user")
    /\ Len(stack) > 0
    /\ item' = entered_list[ndx + 1]
    /\ lastx_list' = <<lastx_list[Len(lastx_list)], stack[1]>>
    /\ pc' = "dialog"
    /\ notice' = ""
    /\ UNCHANGED <<stack, mem, entered_value, entered_list, ndx, typed, store, reply, text, user_dict>>

\* one pass of the dialog with a name; the answer N to "Add or edit
\* another constant?" ends the dialog
DialogRound(names, values) ==
    /\ pc = "dialog"
    /\ \E name \in names, value \in values, ok_delete \in {"Y", "y", "N", ""},
          repeat \in {"Y", "n"} :
          LET r == user_defined(user_dict, name, value, ok_delete)
              leave == r.asked /\ upper(repeat) = "N"
          IN  /\ user_dict' = r.user_dict
              /\ pc' = IF leave THEN "eval" ELSE "dialog"
              /\ ndx' = IF leave THEN ndx + 1 ELSE ndx
    /\ UNCHANGED <<stack, lastx_list, mem, entered_value, entered_list, item, notice, typed, store, reply, text>>

\* no name is entered: the dialog ends
LeaveDialog ==
    /\ pc = "dialog"
    /\ pc' = "eval"
    /\ ndx' = ndx + 1
    /\ UNCHANGED <<stack, lastx_list, mem, entered_value, entered_list, item, notice, typed, store, reply, text, user_dict>>

\* the item the evaluator is about to dispatch, at top level or in a group
Dispatching == (pc = "eval" /\ ndx < Len(entered_list)) \/ pc = "group"
CurItem ==
    IF pc = "group" THEN item
    ELSE IF pc = "eval" /\ ndx < Len(entered_list) THEN entered_list[ndx + 1]
    ELSE NoItem
AtSym(str) == Dispatching /\ IsSym(CurItem, str)

\* ---- arithmetic on the stack ----------------------------------------------
ArithWords == {Lit(0, 1), Lit(3, 1), Lit(4, 1), Sym("+"), Sym("-"), Sym("*"),
               Sym("x"), Sym("/"), Sym("x:")}

NextArith ==
    \/ Start
    \/ \E line \in LinesOver(ArithWords, MaxTokens) : Input(line, MaxTotal)
    \/ EmptyEnter
    \/ EnterLine
    \/ EvalItem
    \/ Return

SpecArith == Init /\ [][NextArith]_vars

\* C1: a binary operator +, -, *, x or / (x: not zero) on a stack of at least
\* two elements replaces x: and y: by the single value y OP x, y on the left;
\* the stack is one element shorter and the elements below y: are untouched.
C1_IsYOpX(str, r, x, y) ==
    CASE str = "+" -> r.n * (y.d * x.d) = (y.n * x.d + x.n * y.d) * r.d
      [] str = "-" -> r.n * (y.d * x.d) = (y.n * x.d - x.n * y.d) * r.d
      [] str \in {"*", "x"} -> r.n * (y.d * x.d) = (y.n * x.n) * r.d
      [] str = "/" -> r.n * (y.d * x.n) = (y.n * x.d) * r.d

C1_Case(str) == AtSym(str) /\ Len(stack) >= 2 /\ (str = "/" => stack[1].n # 0)

C1_BinaryOperators ==
    [][\A str \in {"+", "-", "*", "x", "/"} :
          C1_Case(str) =>
              /\ pc' # "crashed"
              /\ Len(stack') = Len(stack) - 1
              /\ C1_IsYOpX(str, stack'[1], stack[1], stack[2])
              /\ Tail(stack') = Tail(Tail(stack))]_vars

\* ---- groups ----------------------------------------------------------------
GroupWords == {Sym("("), Sym(")"), Lit(1, 1), Sym("q"), Sym("h")}

NextGroup ==
    \/ Start
    \/ \E line \in LinesOver(GroupWords, MaxTokens) : Input(line, MaxTotal)
    \/ Quit
    \/ Unbalanced
    \/ EmptyEnter
    \/ EnterLine
    \/ EvalItem
    \/ EvalGroupItem
    \/ Return

SpecGroup == Init /\ [][NextGroup]_vars

\* initial_processing() run from the state S for at most fuel iterations:
\* the state in which it returns or crashes
RECURSIVE Run(_, _)
Run(S, fuel) ==
    IF fuel = 0 THEN [S EXCEPT !.pc = "running"]
    ELSE IF S.pc = "eval" /\ S.ndx < Len(S.entered_list)
    THEN IF TopStep(S).rep THEN Run(TopStep(S).st, fuel - 1)
         ELSE [S EXCEPT !.pc = "unmodelled"]
    ELSE IF S.pc = "group"
    THEN IF GroupStep(S).rep THEN Run(GroupStep(S).st, fuel - 1)
         ELSE [S EXCEPT !.pc = "unmodelled"]
    ELSE S

IsParen(t) == IsSym(t, "(") \/ IsSym(t, ")")
C2_NoParens(list) == SelectSeq(list, LAMBDA t : ~IsParen(t))

\* every ")" closes an earlier "(" and every "(" is closed
RECURSIVE C2_Nested(_, _)
C2_Nested(list, open) ==
    IF Len(list) = 0 THEN open = 0
    ELSE IF IsSym(Head(list), "(") THEN C2_Nested(Tail(list), open + 1)
    ELSE IF IsSym(Head(list), ")") THEN open > 0 /\ C2_Nested(Tail(list), open - 1)
    ELSE C2_Nested(Tail(list), open)

C2_Fuel == 2 * Len(entered_list) + 2
C2_Grouped == Run(State, C2_Fuel)
C2_Flat == Run([State EXCEPT !.entered_list = C2_NoParens(entered_list)], C2_Fuel)

\* C2: parentheses never change the result: a line whose parentheses are
\* properly nested ends its evaluation as the same line without its
\* parentheses does, with the same final stack.
C2_ParenthesesNeverChange ==
    (pc = "eval" /\ ndx = 0 /\ C2_Nested(entered_list, 0))
        => /\ C2_Grouped.pc = C2_Flat.pc
           /\ C2_Grouped.stack = C2_Flat.stack

\* C3: a line that passes the parenthesis check is evaluated to completion:
\* the cursor of a group never leaves the token sequence, where no ")" can
\* be fetched any more and the group's loop cannot end.
C3_EvaluatedToCompletion ==
    pc = "group" => ndx < Len(entered_list)

\* ---- stack commands on a short stack --------------------------------------
StackWords == {Sym("d"), Sym("ru"), Sym("s"), Sym("+"), Lit(1, 1)}

NextStack ==
    \/ Start
    \/ \E line \in LinesOver(StackWords, MaxTokens) : Input(line, MaxTotal)
    \/ EmptyEnter
    \/ EnterLine
    \/ EvalItem
    \/ Return

SpecStack == Init /\ [][NextStack]_vars

\* C4: stack underflow never raises: whatever was dropped before, a token
\* dispatched on a stack shorter than it needs does not end the program with
\* an index error.
C4_UnderflowNeverRaises ==
    ~(pc = "crashed" /\ notice = "IndexError")

\* ---- unknown symbols ---------------------------------------------------------
SymWords == {Sym("d"), Sym("foo"), Lit(1, 1)}

NextSym ==
    \/ Start
    \/ \E line \in LinesOver(SymWords, LongLine) : Input(line, LongLine)
    \/ EmptyEnter
    \/ EnterLine
    \/ EvalItem
    \/ Return

SpecSym == Init /\ [][NextSym]_vars

IsUnknown(t) ==
    /\ t.k = "sym"
    /\ t.s \notin op1 \cup op2 \cup commands \cup shortcuts \cup constants
    /\ ~IsParen(t)
    /\ t.s \notin {"x:", "y:", "z:", "t:"}

\* C5: an unrecognized symbol is reported and is not fatal: the stack and
\* the memory registers stay as they were before the token and the cursor
\* moves on to the next token of the line.
C5_UnknownSymbol ==
    [][(Dispatching /\ IsUnknown(CurItem)) =>
          /\ pc' # "crashed"
          /\ notice' = "Unknown command"
          /\ stack' = stack
          /\ mem' = mem
          /\ ndx' > ndx]_vars

\* ---- powers ------------------------------------------------------------------
PowWords == {Lit(-4, 1), Lit(1, 2), Lit(2, 1), Sym("^")}

NextPow ==
    \/ Start
    \/ \E line \in LinesOver(PowWords, MaxTokens) : Input(line, MaxTotal)
    \/ EmptyEnter
    \/ EnterLine
    \/ EvalItem
    \/ Return

SpecPow == Init /\ [][NextPow]_vars

\* y ** x has no real value: a negative base with a fractional exponent
C8_Undefined(x, y) == y.n < 0 /\ ~IsInt(x)

\* C8: "^" on operands whose power is undefined over the reals reports the
\* error and leaves the stack as it was, x: and y: still in their places.
C8_PowerUndefined ==
    [][(AtSym("^") /\ Len(stack) >= 2 /\ C8_Undefined(stack[1], stack[2])) =>
          /\ notice' = "Cannot find root of a negative number."
          /\ stack' = stack]_vars

\* ---- register references -----------------------------------------------------
RegWords == {Sym("x:"), Sym("y:"), Lit(1, 1), Sym("d"), Sym("+")}

NextReg ==
    \/ Start
    \/ \E line \in LinesOver(RegWords, MaxTokens) : Input(line, MaxTotal)
    \/ EmptyEnter
    \/ EnterLine
    \/ EvalItem
    \/ Return

SpecReg == Init /\ [][NextReg]_vars

\* C10: in every reachable state every element of the stack is a Decimal;
\* no float and no string is stored in a stack slot.
C10_StackOfDecimals ==
    \A i \in DOMAIN stack : stack[i].ty = "Decimal"

\* ---- lines with unpaired parentheses ----------------------------------------
ParenWords == {Sym("("), Sym(")"), Lit(1, 1), Sym("M+")}

NextParen ==
    \/ Start
    \/ \E line \in LinesOver(ParenWords, MaxTokens) : Input(line, MaxTotal)
    \/ Unbalanced
    \/ EmptyEnter
    \/ EnterLine
    \/ EvalItem
    \/ EvalGroupItem
    \/ Return

SpecParen == Init /\ [][NextParen]_vars

\* C6: a line with as many "(" as ")" or not at all: when the counts differ
\* the line is rejected before it is tokenized; nothing of it is evaluated
\* and the stack, the history register and the memory registers are the
\* same when the user is prompted again.
C6_UnbalancedRejected ==
    [][(pc = "entered" /\ Count(entered_value, "(") # Count(entered_value, ")")) =>
          /\ pc' = "prompt"
          /\ notice' = "Parentheses are not balanced."
          /\ entered_list' = entered_list
          /\ stack' = stack
          /\ lastx_list' = lastx_list
          /\ mem' = mem]_vars

\* a line was rejected while a memory register held a value
C6_Witness ==
    /\ pc = "prompt"
    /\ notice = "Parentheses are not balanced."
    /\ mem # NoMem

\* ---- division by zero --------------------------------------------------------
DivWords == {Lit(0, 1), Lit(4, 1), Sym("/"), Sym("("), Sym(")")}

NextDiv ==
    \/ Start
    \/ \E line \in LinesOver(DivWords, MaxTokens) : Input(line, MaxTotal)
    \/ Unbalanced
    \/ EmptyEnter
    \/ EnterLine
    \/ EvalItem
    \/ EvalGroupItem
    \/ Return

SpecDiv == Init /\ [][NextDiv]_vars

\* C7: "/" with x: equal to zero is reported; the stack after the token is
\* the stack before it, x: and y: still there, and the evaluation goes on
\* with the next token.
C7_DivisionByZero ==
    [][(AtSym("/") /\ Len(stack) >= 2 /\ stack[1].n = 0) =>
          /\ notice' = "Cannot divide by zero."
          /\ stack' = stack
          /\ pc' \in {"eval", "group"}
          /\ ndx' > ndx]_vars

\* 4 was divided by zero: both are still on the stack
C7_Witness ==
    /\ pc \in {"eval", "group"}
    /\ notice = "Cannot divide by zero."
    /\ Len(stack) >= 2
    /\ stack[1].n = 0
    /\ stack[2].n = 4

\* ---- unary operators outside their domain ------------------------------------
UnaryWords == {Lit(-4, 1), Lit(0, 1), Sym("sqrt"), Sym("!"), Sym("log")}

NextUnary ==
    \/ Start
    \/ \E line \in LinesOver(UnaryWords, MaxTokens) : Input(line, MaxTotal)
    \/ EmptyEnter
    \/ EnterLine
    \/ EvalItem
    \/ Return

SpecUnary == Init /\ [][NextUnary]_vars

C9_OutsideDomain(str, x) ==
    CASE str = "sqrt" -> x.n < 0
      [] str = "!" -> x.n < 0
      [] str = "log" -> x.n <= 0

C9_Message(str) ==
    CASE str = "sqrt" -> "Square root of a negative number is undefined."
      [] str = "!" -> "Factorial not defined for negative numbers."
      [] str = "log" -> "Cannot return log of numbers <= 0."

\* C9: sqrt of a negative x:, "!" of a negative x: and log of an x: that is
\* not positive each report an error, leave every element of the stack, x:
\* included, as it was, and the evaluation proceeds to the next token.
C9_UnaryDomainErrors ==
    [][\A str \in {"sqrt", "!", "log"} :
          (AtSym(str) /\ Len(stack) >= 1 /\ C9_OutsideDomain(str, stack[1])) =>
              /\ notice' = C9_Message(str)
              /\ stack' = stack
              /\ pc' = "eval"
              /\ ndx' = ndx + 1]_vars

\* the square root of -4 was asked for: -4 is still x:
C9_Witness ==
    /\ pc = "eval"
    /\ notice = "Square root of a negative number is undefined."
    /\ stack[1].n = -4

\* ---- memory commands on any register number ----------------------------------
KeyWords == {Lit(0, 1), Lit(1, 1), Lit(1, 2), Sym("M+"), Sym("M-"), Sym("MR"),
             Sym("MD"), Sym("ML")}

NextKeys ==
    \/ Start
    \/ \E line \in LinesOver(KeyWords, MaxTokens) : Input(line, MaxTotal)
    \/ EmptyEnter
    \/ EnterLine
    \/ EvalItem
    \/ Return

SpecKeys == Init /\ [][NextKeys]_vars

\* C11: starting from no registers, after any sequence of M+, M-, MR, MD and
\* ML every register number in {mem} is a positive integer: there is no
\* register 0 and no register with a negative number.
C11_PositiveRegisters ==
    \A r \in DOMAIN mem : r > 0

\* the stack element a memory command takes the register number from
C17_Id(str) == IF str = "MR" THEN stack[1] ELSE stack[2]

\* C17: M+, M- and MR with a register number that is not a positive integer
\* (zero, negative or fractional) report the error; no register is created
\* or changed, the stack is unchanged and the next token is evaluated.
C17_InvalidRegisterNumber ==
    [][\A str \in {"M+", "M-", "MR"} :
          (AtSym(str) /\ Len(stack) >= 2
              /\ ~(IsInt(C17_Id(str)) /\ C17_Id(str).n > 0)) =>
              /\ pc' = "eval"
              /\ ndx' = ndx + 1
              /\ notice' = "Register numbers are positive integers, only."
              /\ mem' = mem
              /\ stack' = stack]_vars

\* ---- M+ ------------------------------------------------------------------------
\* "x: d" leaves the float 0.0 of the register reference in x:
AddLines == {<<Sym("x:"), Sym("d"), Lit(1, 1), Sym("s"), Sym("M+")>>,
             <<Lit(1, 1), Lit(5, 1), Sym("M+")>>,
             <<Lit(2, 1), Lit(5, 1), Sym("M+")>>,
             <<Lit(1, 1), Lit(1, 2), Sym("M+")>>,
             <<Lit(1, 1), Sym("M+")>>}

NextAdd ==
    \/ Start
    \/ \E line \in AddLines : Input(line, MaxSession)
    \/ EnterLine
    \/ EvalItem
    \/ Return

SpecAdd == Init /\ [][NextAdd]_vars

\* the values a and b are equal numbers
ValEq(a, b) == a.n * b.d = b.n * a.d

\* every register but r is in m2 what it is in m
C12_OthersUnchanged(m, m2, r) ==
    /\ DOMAIN m2 = DOMAIN m \cup {r}
    /\ \A q \in DOMAIN m \ {r} : m2[q] = m[q]

\* C12: M+ with a positive integer r in y: and the value v in x: creates
\* register r with the value v when r is absent, and makes it hold w + v
\* when it holds w; every other register is unchanged.
C12_MemAdd ==
    [][(AtSym("M+") /\ Len(stack) >= 2 /\ IsInt(stack[2]) /\ stack[2].n > 0) =>
          LET r == stack[2].n
              v == stack[1]
          IN  /\ C12_OthersUnchanged(mem, mem', r)
              /\ IF r \in DOMAIN mem
                 THEN mem'[r].n * (mem[r].d * v.d)
                          = (mem[r].n * v.d + v.n * mem[r].d) * mem'[r].d
                 ELSE ValEq(mem'[r], v)]_vars

\* ---- M- ------------------------------------------------------------------------
SubLines == {<<Sym("x:"), Sym("d"), Lit(1, 1), Sym("s"), Sym("M-")>>,
             <<Lit(1, 1), Lit(5, 1), Sym("M-")>>,
             <<Lit(2, 1), Lit(5, 1), Sym("M-")>>,
             <<Lit(1, 1), Lit(1, 2), Sym("M-")>>,
             <<Lit(1, 1), Sym("M-")>>}

NextSub ==
    \/ Start
    \/ \E line \in SubLines : Input(line, MaxSession)
    \/ EnterLine
    \/ EvalItem
    \/ Return

SpecSub == Init /\ [][NextSub]_vars

\* C13: M- with a positive integer r in y: and the value v in x: makes
\* register r hold w - v when it holds w, and creates it with the value v,
\* as M+ does, when r is absent; every other register is unchanged.
C13_MemSub ==
    [][(AtSym("M-") /\ Len(stack) >= 2 /\ IsInt(stack[2]) /\ stack[2].n > 0) =>
          LET r == stack[2].n
              v == stack[1]
          IN  /\ DOMAIN mem' = DOMAIN mem \cup {r}
              /\ \A q \in DOMAIN mem \ {r} : mem'[q] = mem[q]
              /\ IF r \in DOMAIN mem
                 THEN mem'[r].n * (mem[r].d * v.d)
                          = (mem[r].n * v.d - v.n * mem[r].d) * mem'[r].d
                 ELSE ValEq(mem'[r], v)]_vars

\* ---- MD ------------------------------------------------------------------------
\* the registers a memory_registers.json of an earlier session can hold
StoredMaps == UNION {[S -> {Decimal(1, 2)}] : S \in SUBSET (1..MaxReg)}

\* the session starts with the registers of memory_registers.json
InitStored ==
    /\ stack = <<Zero>>
    /\ lastx_list = <<Zero>>
    /\ store \in {Dump(m) : m \in StoredMaps}
    /\ mem = Load(store)
    /\ entered_value = <<>>
    /\ entered_list = <<>>
    /\ ndx = 0
    /\ item = NoItem
    /\ pc = "start"
    /\ notice = ""
    /\ typed = 0
    /\ reply = ""
    /\ text = ""
    /\ user_dict = NoMacros

DelWords == {Lit(1, 1), Lit(3, 1), Lit(5, 1), Sym("MD")}

NextDel ==
    \/ Start
    \/ \E line \in LinesOver(DelWords, MaxTokens) : Input(line, MaxTotal)
    \/ EmptyEnter
    \/ EnterLine
    \/ EvalItem
    \/ Return

SpecDel == InitStored /\ [][NextDel]_vars

\* the two register numbers MD finds in x: and y:
C14_Ids == {Abs(int(stack[1])), Abs(int(stack[2]))}

\* the lower and the higher of the numbers in K
C14_Lo(K) == CHOOSE i \in K : \A j \in K : i <= j
C14_Hi(K) == CHOOSE i \in K : \A j \in K : j <= i

\* the first number from lo to hi that is not a register of m, hi + 1 when
\* there is none
C14_FirstMissing(m, lo, hi) ==
    C14_Lo({i \in lo..hi + 1 : i \notin DOMAIN m} \cup {hi + 1})

\* MD is dispatched with two non-zero numbers and the user answers Y
C14_Confirmed ==
    /\ AtSym("MD")
    /\ Len(stack) >= 2
    /\ 0 \notin C14_Ids
    /\ reply' = "Y"

\* C14: a confirmed MD over a range removes exactly the registers from the
\* lower number up to, not including, the first number of the range that is
\* not a register; registers after it stay, and nothing is deleted when the
\* lower number is not a register. The stack is left as it is.
C14_RangeDeleteStopsAtFirstMissing ==
    [][C14_Confirmed =>
          LET lo == C14_Lo(C14_Ids)
              stop == C14_FirstMissing(mem, lo, C14_Hi(C14_Ids))
          IN  /\ DOMAIN mem' = DOMAIN mem \ (lo..stop - 1)
              /\ \A q \in DOMAIN mem' : mem'[q] = mem[q]
              /\ stack' = stack]_vars

\* registers 1 and 3, range 1..5: register 1 was deleted, register 3 stays
C14_Witness ==
    /\ reply = "Y"
    /\ notice = "One or more memory registers do not exist."
    /\ Len(stack) >= 2 /\ stack[1].n = 5 /\ stack[2].n = 1
    /\ DOMAIN mem = {3}

\* the stack with x: and y: exchanged
C15_Exchanged == <<stack[2], stack[1]>> \o Tail(Tail(stack))

\* C15: a confirmed MD with x: = a and y: = b, both non-zero, leaves the
\* registers a confirmed MD with x: = b and y: = a leaves on the same map.
C15_OrderOfBoundsIrrelevant ==
    [][C14_Confirmed =>
          mem' = mem_del(C15_Exchanged, mem, "Y").mem]_vars

\* "1 3 MD": x: = 3 is above y: = 1, and registers 1 to 3 were deleted
C15_Witness ==
    /\ reply = "Y"
    /\ notice = ""
    /\ Len(stack) >= 2 /\ stack[1].n = 3 /\ stack[2].n = 1
    /\ pc = "eval"
    /\ mem = <<>>

\* ---- MR ------------------------------------------------------------------------
RecallWords == {Lit(1, 1), Lit(2, 1), Sym("MR"), Sym("M+")}

NextRecall ==
    \/ Start
    \/ \E line \in LinesOver(RecallWords, MaxTokens) : Input(line, MaxTotal)
    \/ EmptyEnter
    \/ EnterLine
    \/ EvalItem
    \/ Return

SpecRecall == InitStored /\ [][NextRecall]_vars

\* MR is dispatched with the number of a register in x:
C16_Recalls(r) ==
    /\ AtSym("MR")
    /\ Len(stack) >= 1
    /\ IsInt(stack[1]) /\ stack[1].n = r
    /\ r \in DOMAIN mem

\* C16: MR leaves {mem} as it is, whatever is in x:, and MR of an existing
\* register replaces the number in x: by the value the register holds, so
\* that repeated MR of a register gives the same value until an M+ or M-
\* changes the register.
C16_RecallKeepsRegisters ==
    [][/\ AtSym("MR") => mem' = mem
       /\ \A r \in 1..MaxReg :
              C16_Recalls(r) => stack' = <<mem[r]>> \o Tail(stack)]_vars

\* "1 MR" on two lines: both gave the value of register 1, which is kept
C16_Witness ==
    /\ pc = "eval"
    /\ typed = 4
    /\ entered_list = <<Lit(1, 1), Sym("MR")>>
    /\ ndx = 2
    /\ 1 \in DOMAIN mem
    /\ Len(stack) >= 2 /\ stack[1] = mem[1] /\ stack[2] = mem[1]

\* C18: MR with the number of a register that does not exist in x: reports
\* it; the stack, the number in x: included, and {mem} are unchanged and the
\* next token is evaluated.
C18_RecallOfMissingRegister ==
    [][(/\ AtSym("MR")
        /\ Len(stack) >= 1
        /\ IsInt(stack[1]) /\ stack[1].n > 0
        /\ stack[1].n \notin DOMAIN mem) =>
          /\ notice' = "Memory register does not exist."
          /\ stack' = stack
          /\ mem' = mem
          /\ pc' = "eval"
          /\ ndx' = ndx + 1]_vars

\* "2 MR" was evaluated with no register 2
C18_Witness ==
    /\ pc = "eval"
    /\ ndx >= 2
    /\ entered_list[ndx] = Sym("MR")
    /\ notice = "Memory register does not exist."
    /\ stack[1] = Decimal(2, 1)
    /\ 2 \notin DOMAIN mem

\* ---- memory_registers.json over sessions ------------------------------------------
\* the program has ended and is started again: {mem} is read from
\* memory_registers.json
Restart ==
    /\ pc \in {"quit", "crashed"}
    /\ mem' = Load(store)
    /\ stack' = <<Zero>>
    /\ lastx_list' = <<Zero>>
    /\ entered_value' = <<>>
    /\ entered_list' = <<>>
    /\ ndx' = 0
    /\ item' = NoItem
    /\ pc' = "start"
    /\ notice' = ""
    /\ reply' = ""
    /\ text' = ""
    /\ UNCHANGED <<typed, store, user_dict>>

StoreWords == {Lit(1, 1), Sym("M+"), Sym("M-"), Sym("MD")}

NextStore ==
    \/ Start
    \/ \E line \in LinesOver(StoreWords, MaxTokens) \cup {<<Sym("q")>>} :
           Input(line, MaxTotal)
    \/ Quit
    \/ EmptyEnter
    \/ EnterLine
    \/ EvalItem
    \/ Return
    \/ Restart

SpecStore == InitStored /\ [][NextStore]_vars

ReloadWords == {Lit(1, 1), Lit(1, 2), Sym("M+"), Sym("M-")}

NextReload ==
    \/ Start
    \/ \E line \in LinesOver(ReloadWords, MaxTokens) \cup {<<Sym("q")>>} :
           Input(line, MaxTotal)
    \/ Quit
    \/ EmptyEnter
    \/ EnterLine
    \/ EvalItem
    \/ Return
    \/ Restart

SpecReload == InitStored /\ [][NextReload]_vars

\* the maps m and m2 have the same register numbers and equal values
C19_SameRegisters(m, m2) ==
    /\ DOMAIN m2 = DOMAIN m
    /\ \A r \in DOMAIN m : ValEq(m2[r], m[r])

\* C19: the registers written to memory_registers.json as decimal strings
\* and read back at the start of a session are the registers that were
\* written: the same register numbers, each with an equal value.
C19_RoundTrip ==
    C19_SameRegisters(mem, Load(Dump(mem)))

\* "1 1 M-" on a register 1 that held 0.5, "q", and the program started
\* again: register 1 is read back as -0.5
C19_Witness ==
    /\ pc = "start"
    /\ typed = 4
    /\ 1 \in DOMAIN mem
    /\ mem[1] = Decimal(-1, 2)

\* C20: {mem} is written to memory_registers.json after every M+, M- and MD
\* before the next token is dispatched: whenever a token is about to be
\* dispatched, and between lines, the file holds the registers of {mem}.
C20_StoreFollowsRegisters ==
    C19_SameRegisters(mem, Load(store))

\* "1 1 M-" created register 1 in this session and the file has it
C20_Witness ==
    /\ pc = "eval"
    /\ ndx = 3
    /\ entered_list = <<Lit(1, 1), Lit(1, 1), Sym("M-")>>
    /\ 1 \in DOMAIN mem
    /\ mem[1] = Decimal(1, 1)
    /\ store # {}

\* ---- lastx ---------------------------------------------------------------------
LastxWords == {Lit(2, 1), Sym("n"), Sym("lastx"), Sym("("), Sym(")")}

NextLastx ==
    \/ Start
    \/ \E line \in LinesOver(LastxWords, MaxTokens) : Input(line, MaxTotal)
    \/ Unbalanced
    \/ EmptyEnter
    \/ EnterLine
    \/ EvalItem
    \/ EvalGroupItem
    \/ Return

SpecLastx == Init /\ [][NextLastx]_vars

\* C21: "lastx" pushes the value x: held before the most recent operator was
\* applied, which is the newest value of [lastx_list] when "lastx" is
\* dispatched; the rest of the stack moves down.
C21_LastxPushesLastX ==
    [][(AtSym("lastx") /\ pc = "eval" /\ Len(stack) >= 1) =>
          stack' = <<lastx_list[Len(lastx_list)]>> \o stack]_vars

\* the token about to be dispatched is an operator of {op1} or {op2}
C22_AtOperator == Dispatching /\ (InTable(CurItem, op1) \/ InTable(CurItem, op2))

\* C22: before an operator is applied, at top level and inside a group,
\* [lastx_list] becomes the pair of its newest value and the value of x:
\* just before the operator, so that it never holds more than two values.
C22_HistoryBeforeOperator ==
    [][(C22_AtOperator /\ Len(stack) >= 1) =>
          lastx_list' = <<lastx_list[Len(lastx_list)], stack[1]>>]_vars

\* ---- register references ---------------------------------------------------------
RefTexts == {"4 3 2 1", "x:", "y:", "z: t:", "t: x: +"}

NextRef ==
    \/ Start
    \/ \E t \in RefTexts : InputText(t, MaxTotal)
    \/ EnterText
    \/ EvalItem
    \/ Return

SpecRef == Init /\ [][NextRef]_vars

\* the words of a line whose words are separated by single blanks
RECURSIVE C23_Words(_, _)
C23_Words(t, w) ==
    IF Len(t) = 0 THEN <<w>>
    ELSE IF Head(t) = " " THEN <<w>> \o C23_Words(Tail(t), "")
    ELSE C23_Words(Tail(t), w \o Head(t))

\* the line names register i
C23_Named(ws, i) == \E j \in 1..Len(ws) : ws[j] = registers[i]

MaxText == 3

TokAlphabet == {"d", "u", "p", "3", "-", "+", " "}

\* the strings of at most n characters of A
RECURSIVE StringsOver(_, _)
StringsOver(A, n) ==
    IF n = 0 THEN {""}
    ELSE LET S == StringsOver(A, n - 1) IN S \cup {s \o c : s \in S, c \in A}

TokTexts == StringsOver(TokAlphabet, MaxText) \cup {"3 4 dup + +", "4 7 3d s sqrt"}

NextTok ==
    \/ Start
    \/ \E t \in TokTexts : InputText(t, 1)
    \/ EmptyText
    \/ EnterText
    \/ EvalItem
    \/ Return

SpecTok == Init /\ [][NextTok]_vars

\* b goes on the run that a is in: two lowercase letters, or two characters
\* of a number
C24_Joins(a, b) ==
    \/ a \in ascii_lowercase /\ b \in ascii_lowercase
    \/ IsNumChar(a) /\ IsNumChar(b)

\* the maximal runs of a line, w being the run that is open
RECURSIVE C24_Runs(_, _)
C24_Runs(t, w) ==
    LET done == IF Len(w) = 0 THEN <<>> ELSE <<w>>
    IN  IF Len(t) = 0 THEN done
        ELSE IF Head(t) = " " THEN done \o C24_Runs(Tail(t), "")
        ELSE IF Len(w) > 0 /\ C24_Joins(At(w, Len(w)), Head(t))
        THEN C24_Runs(Tail(t), w \o Head(t))
        ELSE done \o C24_Runs(Tail(t), Head(t))

\* no letter of the line comes right after an operator character
C24_Covered(t) ==
    \A i \in 1..(Len(t) - 1) : ~(At(t, i) = "+" /\ At(t, i + 1) \in ascii_lowercase)

OptTexts == {"3 5" \o op : op \in op2} \cup {"3 5 " \o op : op \in op2}

NextOpt ==
    \/ Start
    \/ \E t \in OptTexts : InputText(t, 2)
    \/ EnterText
    \/ EvalItem
    \/ Return

SpecOpt == Init /\ [][NextOpt]_vars

\* C25: for every binary operator op, the line "3 5op", with no blank before
\* the operator, is parsed into the items of the line "3 5 op": the number
\* 3, the number 5 and the operator.
C25_BlankBeforeOperatorOptional ==
    [][(pc = "text" /\ pc' = "eval") =>
          \A op \in op2 :
              text = "3 5" \o op =>
                  /\ entered_list' = parse_entry(stack, "3 5 " \o op).entered_list
                  /\ entered_list' = <<Lit(3, 1), Lit(5, 1), Sym(op)>>]_vars

\* ---- user-defined operations ------------------------------------------------------
MacroTexts == {"user", "foo", "3 foo", "foo 3", "bar"}
MacroNames == {"foo", "bar", "sqrt", "+", "e", "dup", "d", "50", "userops"}
MacroValues == {"", "1", "2 3 +"}

NextMacro ==
    \/ Start
    \/ \E t \in MacroTexts : InputText(t, MaxTotal)
    \/ EnterText
    \/ OpenDialog
    \/ DialogRound(MacroNames, MacroValues)
    \/ LeaveDialog
    \/ EvalItem
    \/ Return

SpecMacro == Init /\ [][NextMacro]_vars

C27_NoSystemName ==
    /\ DOMAIN user_dict \cap SystemNames = {}
    /\ pc = "dialog" =>
           \A name \in MacroNames \cap SystemNames, value \in MacroValues,
              ok_delete \in {"Y", "y", "N", ""} :
               user_defined(user_dict, name, value, ok_delete)
                   = [user_dict |-> user_dict, asked |-> FALSE]

\* the dialog is open with foo and bar defined
C27_Witness ==
    /\ pc = "dialog"
    /\ DOMAIN user_dict = {"foo", "bar"}
    /\ user_dict["foo"] = "2 3 +"
    /\ MacroNames \cap SystemNames # {}

\* ---- the confirmation of MD -------------------------------------------------------
ConfirmWords == {Lit(1, 1), Lit(2, 1), Sym("MD")}
ConfirmAnswers == {"Y", "y", "N", "n", ""}

NextConfirm ==
    \/ Start
    \/ \E line \in LinesOver(ConfirmWords, MaxTokens) : Input(line, MaxTotal)
    \/ EmptyEnter
    \/ EnterLine
    \/ EvalItemOn(ConfirmAnswers)
    \/ Return

SpecConfirm == InitStored /\ [][NextConfirm]_vars

\* C28: when MD is dispatched, an answer other than "Y" or "y" leaves the
\* registers and their file as they are, whether y: is 0 (one register) or
\* not (a range); after "Y" or "y", one existing register named by x: with
\* y: = 0 is removed.
C28_DeleteOnlyWhenConfirmed ==
    [][(AtSym("MD") /\ Len(stack) >= 2) =>
          /\ reply' \notin {"Y", "y"} => mem' = mem /\ store' = store
          /\ (reply' \in {"Y", "y"} /\ int(stack[2]) = 0
                  /\ Abs(int(stack[1])) \in DOMAIN mem) =>
                 DOMAIN mem' = DOMAIN mem \ {Abs(int(stack[1]))}]_vars

\* MD over the range 1..2 was answered "n" and registers 1 and 2 are there
C28_Witness ==
    /\ pc = "eval"
    /\ IsSym(item, "MD")
    /\ reply = "n"
    /\ Len(stack) >= 2 /\ stack[1].n = 2 /\ stack[2].n = 1
    /\ {1, 2} \subseteq DOMAIN mem

\* ---- constants ----------------------------------------------------------------------
ConstLines ==
    {<<Sym(c)>> : c \in constants}
        \cup {<<Lit(2, 1), Sym("avogadro")>>, <<Sym("("), Sym("e"), Sym(")")>>}

NextConst ==
    \/ Start
    \/ \E line \in ConstLines : Input(line, MaxTotal)
    \/ EnterLine
    \/ EvalItem
    \/ EvalGroupItem
    \/ Return

SpecConst == Init /\ [][NextConst]_vars

EnterTexts == {"", "3", "dup", "4 dup", "d", "(", "q"}

NextEnter ==
    \/ Start
    \/ \E t \in EnterTexts : InputText(t, MaxTotal)
    \/ QuitText
    \/ UnbalancedText
    \/ EmptyText
    \/ EnterText
    \/ EvalItem
    \/ Return

SpecEnter == Init /\ [][NextEnter]_vars

\* C30: an empty line does to the stack what dispatching dup does: the new
\* stack is the old one with a copy of x: on top, so x: and y: are the old
\* x: and every other element is one position further down.
C30_EmptyLineIsDup ==
    [][((pc = "text" /\ Len(text) = 0) \/ (AtSym("dup") /\ Len(stack) >= 1)) =>
          /\ stack' = <<stack[1]>> \o stack
          /\ stack'[1] = stack[1] /\ stack'[2] = stack[1]
          /\ \A i \in 2..Len(stack) : stack'[i + 1] = stack[i]]_vars

\* "3" and then an empty line
C30_Witness ==
    /\ pc = "prompt"
    /\ typed = 2
    /\ text = ""
    /\ Len(stack) = 6
    /\ stack[1] = Decimal(3, 1) /\ stack[2] = Decimal(3, 1)
    /\ stack[3] = Zero

\* ---- commas -------------------------------------------------------------------------
CommaTexts == StringsOver({"3", "5", ",", " "}, MaxText) \cup {"3,545", "3,5", "3, 5"}

NextComma ==
    \/ Start
    \/ \E t \in CommaTexts : InputText(t, 1)
    \/ EmptyText
    \/ EnterText
    \/ EvalItem
    \/ Return

SpecComma == Init /\ [][NextComma]_vars

\* the line without its commas
RECURSIVE C31_Uncomma(_)
C31_Uncomma(t) ==
    IF Len(t) = 0 THEN ""
    ELSE IF Head(t) = "," THEN C31_Uncomma(Tail(t))
    ELSE Head(t) \o C31_Uncomma(Tail(t))

\* C31: a line is parsed into the items of the same line with every comma
\* deleted, the characters on both sides of a comma coming together:
\* "3,545" is the one number 3545 and "3,5" is the one number 35.
C31_CommasRemoved ==
    [][(pc = "text" /\ pc' = "eval") =>
          /\ entered_list' = parse_entry(stack, C31_Uncomma(text)).entered_list
          /\ \A j \in 1..Len(entered_list') :
                 entered_list'[j].k = "sym" =>
                     \A i \in 1..Len(entered_list'[j].s) : At(entered_list'[j].s, i) # ","
          /\ text = "3,545" => entered_list' = <<Lit(3545, 1)>>
          /\ text = "3,5" => entered_list' = <<Lit(35, 1)>>]_vars

\* "3,5" has been parsed into the number 35
C31_Witness ==
    /\ pc = "eval"
    /\ ndx = 0
    /\ text = "3,5"
    /\ entered_list = <<Lit(35, 1)>>

\* ---- modulo ---------------------------------------------------------------------------
ModWords == {Lit(0, 1), Lit(2, 1), Lit(7, 1), Sym("%")}

NextMod ==
    \/ Start
    \/ \E line \in LinesOver(ModWords, MaxTokens) : Input(line, MaxTotal)
    \/ EmptyEnter
    \/ EnterLine
    \/ EvalItem
    \/ Return

SpecMod == Init /\ [][NextMod]_vars

\* C32: "%" with x: equal to zero ends nothing: the stack after the token is
\* the stack before it, x: and y: still there, and the evaluation goes on
\* with the next token.
C32_ModuloByZero ==
    [][(AtSym("%") /\ Len(stack) >= 2 /\ stack[1].n = 0) =>
          /\ stack' = stack
          /\ pc' = "eval"
          /\ ndx' > ndx]_vars

\* ---- text that starts like a number -------------------------------------------------
NumTexts == StringsOver({"1", ".", "-", "d", " "}, MaxText) \cup {"1.2.3", "1 --"}

NextNum ==
    \/ Start
    \/ \E t \in NumTexts : InputText(t, 1)
    \/ EmptyText
    \/ EnterText
    \/ EvalItem
    \/ Return

SpecNum == Init /\ [][NextNum]_vars

\* Decimal() takes the run: one "-" at most, in front, one "." at most, and
\* a digit
C33_IsNumber(w) ==
    /\ CountChar(w, ".") <= 1
    /\ CountChar(w, "-") = (IF At(w, 1) = "-" THEN 1 ELSE 0)
    /\ \E i \in 1..Len(w) : At(w, i) \in digits

\* C33: parsing a line ends with one item for each maximal run of the line:
\* the scan moves forward at every character, a run of digits, "." and "-"
\* that Decimal() takes is a number and one it does not take ("1.2.3", "--",
\* ".") is the symbol with the characters of the run; the line is then
\* evaluated.
C33_TokenizerTotal ==
    [][(pc = "text" /\ pc' = "eval") =>
          LET runs == C24_Runs(text, "")
          IN  /\ \A i \in 1..Len(text) :
                     ItemEnd(text, i) >= i /\ ItemEnd(text, i) <= Len(text)
              /\ Len(entered_list') = Len(runs)
              /\ \A j \in 1..Len(runs) :
                     IF IsNumChar(At(runs[j], 1)) /\ C33_IsNumber(runs[j])
                     THEN entered_list'[j].k = "num"
                     ELSE entered_list'[j] = Sym(runs[j])
              /\ text = "1.2.3" => entered_list' = <<Sym("1.2.3")>>
              /\ text = "--" => entered_list' = <<Sym("--")>>
              /\ text = "." => entered_list' = <<Sym(".")>>]_vars

\* "1.2.3" has been parsed into one symbol
C33_Witness ==
    /\ pc = "eval"
    /\ ndx = 0
    /\ text = "1.2.3"
    /\ entered_list = <<Sym("1.2.3")>>

\* ---- the padding of the stack -----------------------------------------------------
PadWords == {Lit(1, 1), Sym("+"), Sym("d")}

NextPad ==
    \/ Start
    \/ \E line \in LinesOver(PadWords, MaxTokens) : Input(line, MaxTotal)
    \/ EmptyEnter
    \/ EnterLine
    \/ EvalItem
    \/ Return

SpecPad == Init /\ [][NextPad]_vars

\* C34: when the user is prompted and when the line that was typed is
\* parsed the stack has four elements or more; the display that precedes
\* the prompt keeps every element of the stack in its place and appends
\* zeros to a stack of fewer than four.
C34_AtLeastFour ==
    [][/\ pc' \in {"prompt", "entered"} => Len(stack') >= 4
       /\ (pc \in {"start", "eval"} /\ pc' = "prompt") =>
              /\ Len(stack') = (IF Len(stack) < 4 THEN 4 ELSE Len(stack))
              /\ \A i \in 1..Len(stack) : stack'[i] = stack[i]
              /\ \A i \in (Len(stack) + 1)..Len(stack') : stack'[i] = Decimal(0, 1)]_vars

\* after "1 + +" three elements were left and a zero was appended
C34_Witness ==
    /\ pc = "prompt"
    /\ typed = 3
    /\ lastx_list = <<Decimal(1, 1), Decimal(1, 1)>>
    /\ stack = <<Decimal(1, 1), Zero, Zero, Zero>>

\* ---- rollup and rolldown ------------------------------------------------------------
RollLines == {<<Lit(4, 1), Lit(3, 1), Lit(2, 1), Lit(1, 1)>>, <<Lit(5, 1)>>,
              <<Sym("rollup")>>, <<Sym("rolldown")>>, <<Sym("ru")>>, <<Sym("rd")>>,
              <<Sym("rollup"), Sym("rolldown")>>}

NextRoll ==
    \/ Start
    \/ \E line \in RollLines : Input(line, MaxSession)
    \/ EnterLine
    \/ EvalItem
    \/ Return

SpecRoll == Init /\ [][NextRoll]_vars

\* the stack below t:, which a roll leaves alone
C35_Below(s) == SubSeq(s, 5, Len(s))

\* C35: rollup (ru) moves x: to y:, y: to z:, z: to t: and t: to x:;
\* rolldown (rd) moves them the other way; both keep the length of the
\* stack and every element below t:. A rolldown undoes a rollup, a rollup
\* undoes a rolldown, and three more rollups after one give the stack back.
C35_Rolls ==
    [][/\ ((AtSym("rollup") \/ AtSym("ru")) /\ Len(stack) >= 4) =>
              /\ SubSeq(stack', 1, 4) = <<stack[4], stack[1], stack[2], stack[3]>>
              /\ Len(stack') = Len(stack)
              /\ C35_Below(stack') = C35_Below(stack)
              /\ roll_down(stack').stack = stack
              /\ roll_up(roll_up(roll_up(stack').stack).stack).stack = stack
       /\ ((AtSym("rolldown") \/ AtSym("rd")) /\ Len(stack) >= 4) =>
              /\ SubSeq(stack', 1, 4) = <<stack[2], stack[3], stack[4], stack[1]>>
              /\ Len(stack') = Len(stack)
              /\ C35_Below(stack') = C35_Below(stack)
              /\ roll_up(stack').stack = stack]_vars

\* 4 3 2 1 was entered and rolled up once
C35_Witness ==
    /\ pc = "eval"
    /\ entered_list = <<Sym("rollup")>>
    /\ ndx = 1
    /\ stack = <<Decimal(4, 1), Decimal(1, 1), Decimal(2, 1), Decimal(3, 1),
                 Zero, Zero, Zero, Zero>>

\* ---- q in a line ----------------------------------------------------------------------
QuitTexts == {"1 q 2", "1 2 q", "q 2", "3", "q", "Q"}

NextQuit ==
    \/ Start
    \/ \E t \in QuitTexts : InputText(t, MaxTotal)
    \/ QuitText
    \/ EnterText
    \/ EvalItem
    \/ Return

SpecQuit == Init /\ [][NextQuit]_vars

MemLines == {<<Lit(1, 1), Lit(5, 1), Sym("M+")>>, <<Lit(1, 1), Lit(2, 1), Sym("M-")>>,
             <<Lit(2, 1), Lit(5, 1), Sym("M-")>>, <<Lit(1, 1), Sym("MR")>>,
             <<Lit(2, 1), Sym("MR")>>, <<Sym("MD")>>, <<Lit(2, 1), Lit(1, 1), Sym("MD")>>,
             <<Sym("M+")>>, <<Lit(3, 1)>>}

NextMem ==
    \/ Start
    \/ \E line \in MemLines : Input(line, MaxSession)
    \/ EnterLine
    \/ EvalItem
    \/ Return

SpecMem == Init /\ [][NextMem]_vars

\* the register that M+ or M- is about to update has its new value
C37_Updated ==
    /\ Len(stack) >= 2
    /\ IsInt(stack[2])
    /\ stack[2].n \in DOMAIN mem'
    /\ pc' = "eval"
    /\ notice' = ""

\* C37: MD leaves the stack as it is, whether it deletes or not; M+ and M-
\* that update a register take x: and y: off the stack and keep what is
\* below them; MR of a register that exists puts the register's value in
\* place of x: and keeps the length of the stack and everything below x:.
C37_StackEffect ==
    [][/\ AtSym("MD") => stack' = stack
       /\ ((AtSym("M+") \/ AtSym("M-")) /\ C37_Updated) =>
              stack' = SubSeq(stack, 3, Len(stack))
       /\ (AtSym("MR") /\ Len(stack) >= 1 /\ IsInt(stack[1])
              /\ stack[1].n \in DOMAIN mem) =>
              /\ Len(stack') = Len(stack)
              /\ stack'[1] = mem[stack[1].n]
              /\ \A i \in 2..Len(stack) : stack'[i] = stack[i]]_vars

\* "3", "1 5 M+" and "1 MR": register 1 was made, taking 1 and 5 off the
\* stack, and its value 5 is in x: above the 3
C37_Witness ==
    /\ pc = "eval"
    /\ entered_list = <<Lit(1, 1), Sym("MR")>>
    /\ ndx = 2
    /\ 1 \in DOMAIN mem /\ mem[1] = Decimal(5, 1)
    /\ stack[1] = Decimal(5, 1)
    /\ stack[2] = Decimal(3, 1)

\* ---- an operation that names an operation ------------------------------------------
NestTexts == {"user", "foo", "bar"}
NestNames == {"foo", "bar"}
NestValues == {"", "bar", "foo", "2 3 +"}

NextNest ==
    \/ Start
    \/ \E t \in NestTexts : InputText(t, MaxTotal)
    \/ EnterText
    \/ OpenDialog
    \/ DialogRound(NestNames, NestValues)
    \/ LeaveDialog
    \/ EvalItem
    \/ Return

SpecNest == Init /\ [][NextNest]_vars

\* the line is the name of an operation whose value is the name of an
\* operation
C38_Nested ==
    /\ text \in DOMAIN user_dict
    /\ user_dict[text] \in DOMAIN user_dict

\* C38: the name of a user-defined operation is replaced once: when the
\* operation is itself the name of a user-defined operation, that name is
\* the one item of the line, and dispatching it reports an unknown command,
\* leaves the stack as it is and ends the line.
C38_ExpandedOnce ==
    [][/\ (pc = "text" /\ pc' = "eval" /\ C38_Nested) =>
              /\ entered_list' = <<Sym(user_dict[text])>>
              /\ stack' = stack
       /\ (pc = "eval" /\ ndx < Len(entered_list) /\ C38_Nested) =>
              /\ IsSym(entered_list[ndx + 1], user_dict[text])
              /\ stack' = stack
              /\ notice' = "Unknown command"
              /\ pc' = "eval"
              /\ ndx' = Len(entered_list)]_vars

\* foo is bar and bar is "2 3 +": the line "foo" has reported bar and
\* neither 2 nor 3 is on the stack
C38_Witness ==
    /\ pc = "eval"
    /\ text = "foo"
    /\ "foo" \in DOMAIN user_dict /\ user_dict["foo"] = "bar"
    /\ "bar" \in DOMAIN user_dict /\ user_dict["bar"] = "2 3 +"
    /\ ndx = 1
    /\ entered_list = <<Sym("bar")>>
    /\ notice = "Unknown command"
    /\ \A i \in 1..Len(stack) : stack[i] = Zero

====
